---- MODULE Spec2Model ----
(***************************************************************************)
(* JEE-CBT: the score calculation engine (src/lib/score-calculator.ts).    *)
(*                                                                         *)
(* calculateScore(questions, answerKey, markingScheme) is modelled as the  *)
(* loop it is: the result object built at lines 88-120, then one step of   *)
(* the forEach callback (lines 122-230) per question, then the return.     *)
(***************************************************************************)
EXTENDS Integers, Sequences, FiniteSets, TLC

\* Longest question list a run scores.
MaxQuestions == 2

(***************************************************************************)
(* JavaScript values.  A userAnswer / correctAnswer is null, a string or   *)
(* an array of strings; the three shapes are kept apart by a tag so that   *)
(* `===`, Array.isArray and .length are modelled by what they do.          *)
(***************************************************************************)
Null == [kind |-> "null", str |-> "", arr |-> << >>]

Str(s) == [kind |-> "string", str |-> s, arr |-> << >>]

Arr(a) == [kind |-> "array", str |-> "", arr |-> a]

IsArray(v) == v.kind = "array"

\* A variant of StrictEquals that compares two strings as the numbers they
\* spell, so that "9.80" equals "9.8".
AsNumber(s) == IF s = "9.80" THEN "9.8" ELSE s

NumericEquals(a, b) ==
  /\ a.kind = b.kind
  /\ a.kind # "array"
  /\ AsNumber(a.str) = AsNumber(b.str)

\* `a === b`: null equals null, strings compare by content, and two arrays
\* are equal only when they are the same object.  userAnswer comes from the
\* stored test results and correctAnswer from the uploaded key, so an array
\* on both sides is never the same object.
StrictEquals(a, b) ==
  /\ a.kind = b.kind
  /\ a.kind # "array"
  /\ a.str = b.str

\* Array.prototype.includes on an array of strings.
Includes(a, x) == \E i \in 1..Len(a) : a[i] = x

(***************************************************************************)
(* Inputs.                                                                 *)
(***************************************************************************)
Types == {"singleCorrect", "multipleCorrect", "numerical", "matrixMatch"}

Ids == {1, 2, 3}

Marks(c, i, u) == [correct |-> c, incorrect |-> i, unanswered |-> u]

\* An answer-key entry; hasMarks tells whether the optional marks is there.
Entry(t, ca) == [type |-> t, correctAnswer |-> ca, hasMarks |-> FALSE, marks |-> Marks(0, 0, 0)]

EntryWithMarks(t, ca, m) == [type |-> t, correctAnswer |-> ca, hasMarks |-> TRUE, marks |-> m]

defaultMarkingScheme ==
  [singleCorrect |-> [global |-> TRUE, default |-> Marks(4, -1, 0)],
   multipleCorrect |->
     [allCorrect |-> 4,
      partialCorrect |->
        [allCorrectOptionsThreeMarked |-> 3,
         twoCorrectOptionsMarked |-> 2,
         oneCorrectOptionMarked |-> 1],
      anyIncorrect |-> -2,
      unanswered |-> 0],
   numerical |-> Marks(4, 0, 0)]

\* A fully populated scheme other than the default, with every mark distinct,
\* so that the tier a score came from can be told from the score.
editedMarkingScheme ==
  [singleCorrect |-> [global |-> TRUE, default |-> Marks(5, -2, 1)],
   multipleCorrect |->
     [allCorrect |-> 12,
      partialCorrect |->
        [allCorrectOptionsThreeMarked |-> 9,
         twoCorrectOptionsMarked |-> 7,
         oneCorrectOptionMarked |-> 6],
      anyIncorrect |-> -4,
      unanswered |-> -7],
   numerical |-> Marks(3, -5, -9)]

WithGlobal(ms, g) == [ms EXCEPT !.singleCorrect.global = g]

MarkingSchemes ==
  {WithGlobal(ms, g) : ms \in {defaultMarkingScheme, editedMarkingScheme}, g \in BOOLEAN}

\* Answer keys: maps from some of the ids to entries.  Between them they hold
\* a singleCorrect entry with marks of its own and one without, a numerical
\* entry, and multipleCorrect entries of 2, 3, 4 and 5 correct options; id 3
\* has an entry in none of them and id 2 none in the last.
KeyOf(e1, e2) == (1 :> e1) @@ (2 :> e2)

AnswerKeys ==
  { KeyOf(EntryWithMarks("singleCorrect", Str("A"), Marks(2, -3, -6)),
          Entry("multipleCorrect", Arr(<<"A", "C", "D">>))),
    KeyOf(Entry("singleCorrect", Str("B")),
          Entry("multipleCorrect", Arr(<<"A", "C">>))),
    KeyOf(EntryWithMarks("numerical", Str("9.8"), Marks(2, -3, -6)),
          Entry("multipleCorrect", Arr(<<"A", "B", "C", "D">>))),
    (1 :> Entry("multipleCorrect", Arr(<<"A", "B", "C", "D", "E">>))) }

\* The answers a question of each type is given: what the runner writes for
\* the type (a string or null; a list for multipleCorrect), and an answer of
\* the other shape, which the Question interface also admits.
AnswersOf(type) ==
  CASE type = "singleCorrect" ->
         {Null, Str("A"), Str("9.8"), Arr(<<"A">>)}
    [] type = "numerical" ->
         {Null, Str("9.8"), Str("9.80"), Arr(<<"A">>)}
    [] type = "multipleCorrect" ->
         {Null, Str("A"), Arr(<< >>), Arr(<<"A">>), Arr(<<"A", "C">>), Arr(<<"A", "B">>),
          Arr(<<"A", "A">>), Arr(<<"A", "C", "D">>), Arr(<<"A", "B", "C", "D">>)}
    [] OTHER -> {Null, Str("A")}

Questions ==
  UNION {[id : Ids, type : {t}, userAnswer : AnswersOf(t)] : t \in Types}

(***************************************************************************)
(* calculateScore.                                                         *)
(***************************************************************************)
\* The result object of lines 88-120.
EmptyResult ==
  [totalScore |-> 0,
   totalMaxScore |-> 0,
   sectionScores |->
     [singleCorrect |-> [score |-> 0, maxScore |-> 0, correct |-> 0, incorrect |-> 0, unanswered |-> 0],
      multipleCorrect |->
        [score |-> 0, maxScore |-> 0, allCorrect |-> 0,
         partialCorrect |->
           [allCorrectOptionsThreeMarked |-> 0,
            twoCorrectOptionsMarked |-> 0,
            oneCorrectOptionMarked |-> 0],
         anyIncorrect |-> 0,
         unanswered |-> 0],
      numerical |-> [score |-> 0, maxScore |-> 0, correct |-> 0, incorrect |-> 0, unanswered |-> 0]],
   questionScores |-> << >>]

\* What one question is worth: its score, whether it is correct, and the
\* outcome counter it increments ("none": no counter).
Outcome(s, c, k) == [score |-> s, isCorrect |-> c, counter |-> k]

\* const key = answerKey[question.id]; if (!key) return
HasKey(ak, q) == q.id \in DOMAIN ak

\* A variant of SingleCorrectMarks that takes the entry's marks whenever it
\* has some, whatever the global flag.
SingleCorrectMarksIgnoringGlobal(key, ms) ==
  IF key.hasMarks THEN key.marks ELSE ms.singleCorrect.default

\* singleCorrect: the marks triple in force.
SingleCorrectMarks(key, ms) ==
  IF ~ms.singleCorrect.global /\ key.hasMarks THEN key.marks ELSE ms.singleCorrect.default

\* A variant of NumericalMarks with the per-question override of
\* singleCorrect.
NumericalMarksPerQuestion(key, ms) ==
  IF ~ms.singleCorrect.global /\ key.hasMarks THEN key.marks ELSE ms.numerical

\* numerical: the marks triple in force.
NumericalMarks(key, ms) == ms.numerical

\* singleCorrect and numerical: null, then `===`, then everything else.
TripleOutcome(marks, userAnswer, key) ==
  IF userAnswer = Null THEN Outcome(marks.unanswered, FALSE, "unanswered")
  ELSE IF StrictEquals(userAnswer, key.correctAnswer) THEN Outcome(marks.correct, TRUE, "correct")
  ELSE Outcome(marks.incorrect, FALSE, "incorrect")

\* A variant of HasIncorrectOption that looks at the first marked option only.
HasIncorrectOptionFirstOnly(marked, correct) ==
  Len(marked) > 0 /\ ~Includes(correct, marked[1])

\* question.userAnswer.some((option) => !key.correctAnswer.includes(option))
HasIncorrectOption(marked, correct) ==
  \E i \in 1..Len(marked) : ~Includes(correct, marked[i])

\* A variant of Ladder whose two-marked rung needs more than three correct
\* options (> 3 for >= 3).
LadderStrictTwo(mc, correctOptionsCount, markedCorrectOptionsCount) ==
  IF markedCorrectOptionsCount = correctOptionsCount
    THEN Outcome(mc.allCorrect, TRUE, "allCorrect")
  ELSE IF correctOptionsCount = 4 /\ markedCorrectOptionsCount = 3
    THEN Outcome(mc.partialCorrect.allCorrectOptionsThreeMarked, FALSE, "allCorrectOptionsThreeMarked")
  ELSE IF correctOptionsCount > 3 /\ markedCorrectOptionsCount = 2
    THEN Outcome(mc.partialCorrect.twoCorrectOptionsMarked, FALSE, "twoCorrectOptionsMarked")
  ELSE IF correctOptionsCount >= 2 /\ markedCorrectOptionsCount = 1
    THEN Outcome(mc.partialCorrect.oneCorrectOptionMarked, FALSE, "oneCorrectOptionMarked")
  ELSE Outcome(mc.anyIncorrect, FALSE, "anyIncorrect")

\* A variant of Ladder without the final else: a shape no rung matches keeps
\* score = 0 and counts nowhere.
LadderNoCatchAll(mc, correctOptionsCount, markedCorrectOptionsCount) ==
  IF markedCorrectOptionsCount = correctOptionsCount
    THEN Outcome(mc.allCorrect, TRUE, "allCorrect")
  ELSE IF correctOptionsCount = 4 /\ markedCorrectOptionsCount = 3
    THEN Outcome(mc.partialCorrect.allCorrectOptionsThreeMarked, FALSE, "allCorrectOptionsThreeMarked")
  ELSE IF correctOptionsCount >= 3 /\ markedCorrectOptionsCount = 2
    THEN Outcome(mc.partialCorrect.twoCorrectOptionsMarked, FALSE, "twoCorrectOptionsMarked")
  ELSE IF correctOptionsCount >= 2 /\ markedCorrectOptionsCount = 1
    THEN Outcome(mc.partialCorrect.oneCorrectOptionMarked, FALSE, "oneCorrectOptionMarked")
  ELSE Outcome(0, FALSE, "none")

\* The partial-marking ladder, for a marked list with no incorrect option.
Ladder(mc, correctOptionsCount, markedCorrectOptionsCount) ==
  IF markedCorrectOptionsCount = correctOptionsCount
    THEN Outcome(mc.allCorrect, TRUE, "allCorrect")
  ELSE IF correctOptionsCount = 4 /\ markedCorrectOptionsCount = 3
    THEN Outcome(mc.partialCorrect.allCorrectOptionsThreeMarked, FALSE, "allCorrectOptionsThreeMarked")
  ELSE IF correctOptionsCount >= 3 /\ markedCorrectOptionsCount = 2
    THEN Outcome(mc.partialCorrect.twoCorrectOptionsMarked, FALSE, "twoCorrectOptionsMarked")
  ELSE IF correctOptionsCount >= 2 /\ markedCorrectOptionsCount = 1
    THEN Outcome(mc.partialCorrect.oneCorrectOptionMarked, FALSE, "oneCorrectOptionMarked")
  ELSE Outcome(mc.anyIncorrect, FALSE, "anyIncorrect")

\* A variant of IsUnmarked that takes only null for unanswered.
IsUnmarkedNullOnly(userAnswer) == userAnswer = Null

\* userAnswer === null || (Array.isArray(userAnswer) && userAnswer.length === 0)
IsUnmarked(userAnswer) ==
  userAnswer = Null \/ (IsArray(userAnswer) /\ Len(userAnswer.arr) = 0)

\* multipleCorrect: unanswered, any incorrect option, the ladder; a
\* userAnswer or correctAnswer that is not an array leaves score at 0.
MultipleOutcome(mc, userAnswer, key) ==
  IF IsUnmarked(userAnswer) THEN Outcome(mc.unanswered, FALSE, "unanswered")
  ELSE IF IsArray(userAnswer) /\ IsArray(key.correctAnswer)
    THEN IF HasIncorrectOption(userAnswer.arr, key.correctAnswer.arr)
           THEN Outcome(mc.anyIncorrect, FALSE, "anyIncorrect")
           ELSE Ladder(mc, Len(key.correctAnswer.arr), Len(userAnswer.arr))
  ELSE Outcome(0, FALSE, "none")

\* A variant of MultipleMaxScore worth one mark per correct option of the key.
MultipleMaxScorePerOption(ms, key) ==
  IF IsArray(key.correctAnswer) THEN Len(key.correctAnswer.arr) ELSE ms.multipleCorrect.allCorrect

\* multipleCorrect: maxScore = markingScheme.multipleCorrect.allCorrect
MultipleMaxScore(ms, key) == ms.multipleCorrect.allCorrect

\* One section bucket after a question: maxScore, the outcome counter, score.
TripleSection(sec, maxScore, o) ==
  [sec EXCEPT !.maxScore = @ + maxScore,
              ![o.counter] = @ + 1,
              !.score = @ + o.score]

PartialCounters ==
  {"allCorrectOptionsThreeMarked", "twoCorrectOptionsMarked", "oneCorrectOptionMarked"}

MultipleSection(sec, maxScore, o) ==
  LET counted ==
        IF o.counter = "none" THEN sec
        ELSE IF o.counter \in PartialCounters
          THEN [sec EXCEPT !.partialCorrect[o.counter] = @ + 1]
        ELSE [sec EXCEPT ![o.counter] = @ + 1]
  IN [counted EXCEPT !.maxScore = @ + maxScore, !.score = @ + o.score]

\* A variant of Switch with a default branch that scores a question of any
\* other type as a singleCorrect one.
SwitchDefaultSingle(sections, q, key, ms) ==
  CASE q.type = "multipleCorrect" ->
         LET maxScore == MultipleMaxScore(ms, key)
             o == MultipleOutcome(ms.multipleCorrect, q.userAnswer, key)
         IN [maxScore |-> maxScore, outcome |-> o,
             sections |-> [sections EXCEPT !.multipleCorrect = MultipleSection(@, maxScore, o)]]
    [] q.type = "numerical" ->
         LET marks == NumericalMarks(key, ms)
             o == TripleOutcome(marks, q.userAnswer, key)
         IN [maxScore |-> marks.correct, outcome |-> o,
             sections |-> [sections EXCEPT !.numerical = TripleSection(@, marks.correct, o)]]
    [] OTHER ->
         LET marks == SingleCorrectMarks(key, ms)
             o == TripleOutcome(marks, q.userAnswer, key)
         IN [maxScore |-> marks.correct, outcome |-> o,
             sections |-> [sections EXCEPT !.singleCorrect = TripleSection(@, marks.correct, o)]]

\* The switch on question.type (lines 130-218): the question's maxScore and
\* outcome and the section buckets after it.  A type that matches no case
\* leaves score = 0, maxScore = 0 and every bucket alone.
Switch(sections, q, key, ms) ==
  CASE q.type = "singleCorrect" ->
         LET marks == SingleCorrectMarks(key, ms)
             o == TripleOutcome(marks, q.userAnswer, key)
         IN [maxScore |-> marks.correct, outcome |-> o,
             sections |-> [sections EXCEPT !.singleCorrect = TripleSection(@, marks.correct, o)]]
    [] q.type = "multipleCorrect" ->
         LET maxScore == MultipleMaxScore(ms, key)
             o == MultipleOutcome(ms.multipleCorrect, q.userAnswer, key)
         IN [maxScore |-> maxScore, outcome |-> o,
             sections |-> [sections EXCEPT !.multipleCorrect = MultipleSection(@, maxScore, o)]]
    [] q.type = "numerical" ->
         LET marks == NumericalMarks(key, ms)
             o == TripleOutcome(marks, q.userAnswer, key)
         IN [maxScore |-> marks.correct, outcome |-> o,
             sections |-> [sections EXCEPT !.numerical = TripleSection(@, marks.correct, o)]]
    [] OTHER ->
         [maxScore |-> 0, outcome |-> Outcome(0, FALSE, "none"), sections |-> sections]

\* A variant of Record that replaces questionScores by the one new entry.
RecordOnlyLast(questionScores, q, key, sw) ==
  (q.id :> [score |-> sw.outcome.score,
            maxScore |-> sw.maxScore,
            isCorrect |-> sw.outcome.isCorrect,
            correctAnswer |-> key.correctAnswer,
            userAnswer |-> q.userAnswer])

\* result.questionScores[question.id] = {...}
Record(questionScores, q, key, sw) ==
  (q.id :> [score |-> sw.outcome.score,
            maxScore |-> sw.maxScore,
            isCorrect |-> sw.outcome.isCorrect,
            correctAnswer |-> key.correctAnswer,
            userAnswer |-> q.userAnswer]) @@ questionScores

\* A variant of Totals that adds score where maxScore is meant.
TotalsMaxFromScore(res, sw) ==
  [totalScore |-> res.totalScore + sw.outcome.score,
   totalMaxScore |-> res.totalMaxScore + sw.outcome.score]

\* result.totalScore += score; result.totalMaxScore += maxScore
Totals(res, sw) ==
  [totalScore |-> res.totalScore + sw.outcome.score,
   totalMaxScore |-> res.totalMaxScore + sw.maxScore]

\* A variant of ScoreQuestion that records a question without a key entry as
\* an unscored one instead of returning.
ScoreQuestionRecordingUnkeyed(res, q, ak, ms) ==
  IF ~HasKey(ak, q)
    THEN [res EXCEPT !.questionScores =
            (q.id :> [score |-> 0, maxScore |-> 0, isCorrect |-> FALSE,
                      correctAnswer |-> Null, userAnswer |-> q.userAnswer]) @@ @]
  ELSE LET key == ak[q.id]
           sw == Switch(res.sectionScores, q, key, ms)
           tot == Totals(res, sw)
       IN [totalScore |-> tot.totalScore,
           totalMaxScore |-> tot.totalMaxScore,
           sectionScores |-> sw.sections,
           questionScores |-> Record(res.questionScores, q, key, sw)]

\* The forEach callback (lines 122-230) applied to one question.
ScoreQuestion(res, q, ak, ms) ==
  IF ~HasKey(ak, q) THEN res
  ELSE LET key == ak[q.id]
           sw == Switch(res.sectionScores, q, key, ms)
           tot == Totals(res, sw)
       IN [totalScore |-> tot.totalScore,
           totalMaxScore |-> tot.totalMaxScore,
           sectionScores |-> sw.sections,
           questionScores |-> Record(res.questionScores, q, key, sw)]

(***************************************************************************)
(* validateAnswerKey(answerKey: any), lines 235-277, on parsed JSON.        *)
(*                                                                         *)
(* A JSON value carries its kind; "absent" stands for a property that is   *)
(* not there (reading it gives undefined).  A marks value and an entry are *)
(* JSON values too, with the properties the validator looks at.            *)
(***************************************************************************)
J(k, s, n, a) == [k |-> k, s |-> s, n |-> n, a |-> a]

JAbsent == J("absent", "", 0, << >>)

JNull == J("null", "", 0, << >>)

JFalse == J("boolean", "", 0, << >>)

JNum(n) == J("number", "", n, << >>)

JStr(s) == J("string", s, 0, << >>)

JArr(a) == J("array", "", 0, a)

\* typeof v
TypeOf(v) ==
  CASE v.k \in {"null", "array", "object"} -> "object"
    [] v.k = "absent" -> "undefined"
    [] OTHER -> v.k

\* Whether `if (v)` takes v for true: not undefined, null, false, 0 or "".
Truthy(v) ==
  CASE v.k \in {"absent", "null"} -> FALSE
    [] v.k = "boolean" -> v.n # 0
    [] v.k = "number" -> v.n # 0
    [] v.k = "string" -> v.s # ""
    [] OTHER -> TRUE

\* A marks value: an object with some of correct, incorrect, unanswered, or
\* a value of another kind (which has none of the three).
JMarks(c, i, u) ==
  [k |-> "object", s |-> "", n |-> 0, correct |-> c, incorrect |-> i, unanswered |-> u]

JMarksOther(v) ==
  [k |-> v.k, s |-> v.s, n |-> v.n, correct |-> JAbsent, incorrect |-> JAbsent, unanswered |-> JAbsent]

\* An entry of the document: an object with some of type, correctAnswer,
\* marks, or a value of another kind.
JEntry(t, ca, m) ==
  [k |-> "object", n |-> 0, type |-> t, correctAnswer |-> ca, marks |-> m]

JEntryOther(k, n) ==
  [k |-> k, n |-> n, type |-> JAbsent, correctAnswer |-> JAbsent, marks |-> JMarksOther(JAbsent)]

\* Number(id) for the property names of the documents: NaN or a number.
\* Number("") and Number(" ") are 0.
NumberOfId(id) ==
  CASE id \in {"", " ", "0"} -> [nan |-> FALSE, n |-> 0]
    [] id = "1" -> [nan |-> FALSE, n |-> 1]
    [] id = "2" -> [nan |-> FALSE, n |-> 2]
    [] id = "3" -> [nan |-> FALSE, n |-> 3]
    [] OTHER -> [nan |-> TRUE, n |-> 0]

\* A variant of MarksRejected that checks that the three properties are there
\* but not that they are numbers.
MarksRejectedShapeOnly(marks) ==
  /\ Truthy(marks)
  /\ \/ TypeOf(marks) # "object"
     \/ marks.correct.k = "absent" \/ marks.incorrect.k = "absent" \/ marks.unanswered.k = "absent"

\* Lines 263-273: the checks on marks.
MarksRejected(marks) ==
  /\ Truthy(marks)
  /\ \/ TypeOf(marks) # "object"
     \/ marks.correct.k = "absent" \/ marks.incorrect.k = "absent" \/ marks.unanswered.k = "absent"
     \/ TypeOf(marks.correct) # "number"
     \/ TypeOf(marks.incorrect) # "number"
     \/ TypeOf(marks.unanswered) # "number"

\* Lines 256-260: the checks on correctAnswer.
CorrectAnswerRejected(type, correctAnswer) ==
  \/ type = "singleCorrect" /\ TypeOf(correctAnswer) # "string"
  \/ type = "multipleCorrect" /\ (correctAnswer.k # "array" \/ Len(correctAnswer.a) = 0)
  \/ type = "numerical" /\ TypeOf(correctAnswer) # "string"

\* Number(id) is NaN (line 244).
IdRejected(id) == NumberOfId(id).nan

\* The body of the for loop (lines 243-273): some check returns false.
EntryRejected(id, e) ==
  \/ IdRejected(id)
  \/ e.k \in {"null", "absent"} \/ (e.k = "number" /\ e.n = 0) \/ TypeOf(e) # "object"
  \/ e.type.k = "absent" \/ e.correctAnswer.k = "absent"
  \/ ~(e.type.k = "string" /\ e.type.s \in {"singleCorrect", "multipleCorrect", "numerical"})
  \/ CorrectAnswerRejected(e.type.s, e.correctAnswer)
  \/ MarksRejected(e.marks)

\* A candidate document: its kind, whether `!answerKey` is false for it, and
\* its Object.entries, each an id (a property name) and an entry.
Candidate(k, truthy, entries) == [k |-> k, truthy |-> truthy, entries |-> entries]

\* Line 236: not an object.
CandidateRejected(c) ==
  ~c.truthy \/ (IF c.k \in {"null", "array", "object"} THEN "object" ELSE c.k) # "object"

validateAnswerKey(c) ==
  IF CandidateRejected(c) THEN FALSE
  ELSE IF Len(c.entries) = 0 THEN FALSE
  ELSE \A i \in 1..Len(c.entries) : ~EntryRejected(c.entries[i].id, c.entries[i].entry)

\* Most entries a candidate document has.
MaxEntries == 2

NoMarks == JMarksOther(JAbsent)

\* Entries the validator is given: well-formed ones, and one for each way an
\* entry can depart from the shape { type, correctAnswer, marks? }.
RawEntries ==
  { JEntry(JStr("singleCorrect"), JStr("A"), NoMarks),
    JEntry(JStr("singleCorrect"), JStr("A"), JMarks(JNum(2), JNum(-3), JNum(-6))),
    JEntry(JStr("multipleCorrect"), JArr(<<JStr("A"), JStr("C")>>), NoMarks),
    JEntry(JStr("numerical"), JStr("9.8"), NoMarks),
    \* marks present, not a mapping
    JEntry(JStr("singleCorrect"), JStr("A"), JMarksOther(JNull)),
    JEntry(JStr("singleCorrect"), JStr("A"), JMarksOther(JNum(0))),
    JEntry(JStr("singleCorrect"), JStr("A"), JMarksOther(JFalse)),
    JEntry(JStr("singleCorrect"), JStr("A"), JMarksOther(JStr(""))),
    JEntry(JStr("singleCorrect"), JStr("A"), JMarksOther(JNum(5))),
    JEntry(JStr("singleCorrect"), JStr("A"), JMarksOther(JArr(<< >>))),
    \* marks a mapping without unanswered, or with a string for a number
    JEntry(JStr("singleCorrect"), JStr("A"), JMarks(JNum(2), JNum(-3), JAbsent)),
    JEntry(JStr("singleCorrect"), JStr("A"), JMarks(JStr("4"), JNum(-3), JNum(-6))),
    \* correctAnswer of the wrong shape
    JEntry(JStr("multipleCorrect"), JArr(<<JNum(1), JStr("A")>>), NoMarks),
    JEntry(JStr("multipleCorrect"), JArr(<< >>), NoMarks),
    JEntry(JStr("multipleCorrect"), JStr("A"), NoMarks),
    JEntry(JStr("singleCorrect"), JArr(<<JStr("A")>>), NoMarks),
    JEntry(JStr("numerical"), JNum(9), NoMarks),
    \* type or correctAnswer missing, type outside the enum
    JEntry(JAbsent, JStr("A"), NoMarks),
    JEntry(JStr("singleCorrect"), JAbsent, NoMarks),
    JEntry(JStr("matrixMatch"), JStr("A"), NoMarks),
    \* not a mapping
    JEntryOther("null", 0),
    JEntryOther("number", 5),
    JEntryOther("array", 0) }

\* Property names of an object document, in the order Object.entries lists
\* them here; the elements of a list document are named "0", "1", ...
ObjectIds == <<"1", "2", "", "abc">>

IndexIds == <<"0", "1", "2", "3">>

\* The increasing sequences of n positions of ObjectIds.
RECURSIVE Picks(_, _)
Picks(n, from) ==
  IF n = 0 THEN {<< >>}
  ELSE UNION { {<<i>> \o rest : rest \in Picks(n - 1, i + 1)} : i \in from..Len(ObjectIds) }

\* The object document with the entries es under the names picked, and the
\* list document with the elements es.
ObjectDocument(pick, es) ==
  Candidate("object", TRUE, [i \in 1..Len(es) |-> [id |-> ObjectIds[pick[i]], entry |-> es[i]]])

ListDocument(es) ==
  Candidate("array", TRUE, [i \in 1..Len(es) |-> [id |-> IndexIds[i], entry |-> es[i]]])

\* null, undefined, 0, 5, "", "abc", false, true.
OtherCandidates ==
  { Candidate(k, t, << >>) : k \in {"number", "string", "boolean"}, t \in BOOLEAN }
    \cup { Candidate("null", FALSE, << >>), Candidate("undefined", FALSE, << >>) }

NoCandidate == Candidate("undefined", FALSE, << >>)

(***************************************************************************)
(* calculateScore on a parsed document, as the analysis page calls it once *)
(* validateAnswerKey has returned true (part_004, lines 162-172).          *)
(***************************************************************************)
\* The property name question.id indexes the document with.
IdName(n) ==
  CASE n = 1 -> "1"
    [] n = 2 -> "2"
    [] n = 3 -> "3"
    [] OTHER -> "0"

\* answerKey[question.id]: the entry under that name, or undefined.
Lookup(c, q) ==
  LET hits == {i \in 1..Len(c.entries) : c.entries[i].id = IdName(q.id)}
  IN IF hits = {} THEN JEntryOther("absent", 0)
     ELSE c.entries[CHOOSE i \in hits : TRUE].entry

\* `!key` is false.
EntryTruthy(e) == ~(e.k \in {"absent", "null"} \/ (e.k = "number" /\ e.n = 0))

\* A correctAnswer as calculateScore compares it: a string, a list (an
\* element that is not a string equals no option) or a value that no answer
\* is === to.
AsAnswer(v) ==
  CASE v.k = "string" -> Str(v.s)
    [] v.k = "array" -> Arr([i \in 1..Len(v.a) |-> IF v.a[i].k = "string" THEN v.a[i].s ELSE "#"])
    [] OTHER -> Null

\* The entry as the callback reads it: `key.marks` counts when it is truthy.
AsKeyEntry(e) ==
  [type |-> e.type.s,
   correctAnswer |-> AsAnswer(e.correctAnswer),
   hasMarks |-> Truthy(e.marks),
   marks |-> Marks(e.marks.correct.n, e.marks.incorrect.n, e.marks.unanswered.n)]

\* The marks properties the singleCorrect case reads from key.marks are
\* numbers: correct for maxScore, and the one of the outcome for score.
MarksReadDefined(q, e, ms) ==
  (q.type = "singleCorrect" /\ ~ms.singleCorrect.global /\ Truthy(e.marks)) =>
    LET field == TripleOutcome(Marks(0, 0, 0), q.userAnswer, AsKeyEntry(e)).counter
    IN e.marks.correct.k = "number" /\ e.marks[field].k = "number"

\* calculateScore([q], c, ms): whether it threw (indexing null or undefined),
\* whether every number it wrote is defined, the entry it used and the result.
ScoreOnDocument(c, q, ms) ==
  LET e == Lookup(c, q)
      out(t, d, k, r) == [threw |-> t, defined |-> d, key |-> k, result |-> r]
  IN IF c.k \in {"null", "undefined"} THEN out(TRUE, FALSE, << >>, EmptyResult)
     ELSE IF ~EntryTruthy(e) THEN out(FALSE, TRUE, << >>, EmptyResult)
     ELSE IF ~MarksReadDefined(q, e, ms) THEN out(FALSE, FALSE, (q.id :> AsKeyEntry(e)), EmptyResult)
     ELSE out(FALSE, TRUE, (q.id :> AsKeyEntry(e)),
              ScoreQuestion(EmptyResult, q, (q.id :> AsKeyEntry(e)), ms))

(***************************************************************************)
(* The state of one call of calculateScore.                                *)
(***************************************************************************)
VARIABLES
  answerKey,      \* the answerKey argument
  markingScheme,  \* the markingScheme argument
  result,         \* the result object being built
  question,       \* the question the callback ran on last
  before,         \* result as it was when that callback started
  tally,          \* questions with a key entry taken so far, by question.type
  seen,           \* the ids of the questions taken so far
  taken,          \* how many questions of the list the loop has taken
  pc,             \* "loop": inside forEach; "done": result returned
  candidate,      \* the parsed document given to validateAnswerKey
  verdict,        \* "pending", or what validateAnswerKey returned
  threw,          \* calculateScore raised an error
  defined,        \* every number calculateScore wrote is defined
  questions,      \* the questions argument, where the caller holds the list
  given,          \* the three arguments as the caller passed them
  returned,       \* the calls that have returned: what was given, the
                  \* arguments afterwards and the result
  testResults,    \* analysis page: the test results loaded on mount
  pageAnswerKey,  \* analysis page: the answerKey state, null or a document
  questionMarkingSchemes,  \* analysis page: the per-question schemes
  scoreResult,    \* analysis page: the scoreResult state, << >> for null
  passed,         \* the answer key of the page's last calculateScore call
  events,         \* how many events the page has handled
  moduleDefaultMarkingScheme,  \* the exported defaultMarkingScheme object
  edited,         \* the questionId of handleQuestionMarkingSchemeChange if
                  \* it handled the last event, 0 otherwise
  keyBefore,      \* the answerKey state before the last event
  localStorage,   \* the browser's localStorage: item name -> item
  storageLog,     \* the StorageService calls made, with what they returned
  route,          \* the page shown: "configure", "test", "analysis" or "none"
  user,           \* whether useAuth() gives a signed-in user
  testState,      \* test page: the testState state
  currentQuestionRef,  \* test page: currentQuestionRef.current
  shown,          \* test page: currentQuestion of the last render
  timeouts,       \* the pending setTimeout(() => saveProgress(false), 0):
                  \* the testState each saveProgress closure holds
  upserts,        \* progress data whose Supabase upsert is still to come
  submitStage,    \* how far handleSubmitTest has got
  testProgressRow,  \* the user's row of the Supabase table test_progress
  started,        \* the testConfig handleStartTest stored, if it ran
  lastWritten,    \* the last answer an answer handler wrote
  lateWrite,      \* saveProgress wrote progress after handleSubmitTest began
  testEvents      \* how many user events the test page has handled

scoreVars == <<answerKey, markingScheme, result, question, before, tally, seen, taken, pc>>

validatorVars == <<candidate, verdict, threw, defined>>

callVars == <<questions, given, returned>>

pageVars ==
  <<testResults, pageAnswerKey, questionMarkingSchemes, scoreResult, passed, events,
    moduleDefaultMarkingScheme, edited, keyBefore>>

storageVars == <<localStorage, storageLog>>

testVars ==
  <<route, user, testState, currentQuestionRef, shown, timeouts, upserts, submitStage,
    testProgressRow, started, lastWritten, lateWrite, testEvents>>

runnerVars == <<storageVars, testVars>>

vars == <<scoreVars, validatorVars, callVars, pageVars, runnerVars>>

NoAnswerKey == Candidate("null", FALSE, << >>)

\* No call is under way or has returned.
NoCalls ==
  /\ questions = << >>
  /\ given = << >>
  /\ returned = << >>

\* An item of localStorage: absent, or a string.  The strings stored here
\* are JSON texts, told by the value they parse to, or text that does not
\* parse.
NullData == [kind |-> "null", props |-> << >>]

NoItem == [present |-> FALSE, parses |-> FALSE, value |-> NullData]

\* A question of the test page (page.tsx, lines 284-294), without its
\* timeSpent, visitCount and screenshot.
TestQuestion(id, type, userAnswer, isMarkedForReview, isVisited) ==
  [id |-> id, type |-> type, userAnswer |-> userAnswer,
   isMarkedForReview |-> isMarkedForReview, isVisited |-> isVisited]

\* currentQuestionRef.current = null.
NullQuestion == TestQuestion(0, "", Null, FALSE, FALSE)

\* The testState the page is constructed with (lines 49-75).
InitialTestState ==
  [questions |-> << >>,
   currentQuestionIndex |-> 0,
   timeRemaining |-> 0,
   testConfig |-> NullData,
   useServerStorage |-> TRUE,
   isLoading |-> TRUE,
   testSubmitted |-> FALSE]

NoWritten == [set |-> FALSE, at |-> 0, userAnswer |-> Null, ticket |-> 0, saved |-> FALSE]

\* The test page is not mounted and nothing is under way.
NoTest ==
  /\ route = "none"
  /\ user = FALSE
  /\ testState = InitialTestState
  /\ currentQuestionRef = NullQuestion
  /\ shown = NullQuestion
  /\ timeouts = << >>
  /\ upserts = << >>
  /\ submitStage = "idle"
  /\ testProgressRow = NullData
  /\ started = NullData
  /\ lastWritten = NoWritten
  /\ lateWrite = FALSE
  /\ testEvents = 0

\* Nothing is stored and the test page is not mounted.
NoRunner ==
  /\ localStorage = [name \in {"testConfig", "testProgress", "serverTestProgress", "testResults"} |-> NoItem]
  /\ storageLog = << >>
  /\ NoTest

\* The analysis page is not mounted.
NoPage ==
  /\ testResults = [questions |-> << >>]
  /\ pageAnswerKey = NoAnswerKey
  /\ questionMarkingSchemes = << >>
  /\ scoreResult = << >>
  /\ passed = << >>
  /\ events = 0
  /\ moduleDefaultMarkingScheme = defaultMarkingScheme
  /\ edited = 0
  /\ keyBefore = NoAnswerKey

NoQuestion == [id |-> 0, type |-> "", userAnswer |-> Null]

Init ==
  /\ answerKey \in AnswerKeys
  /\ markingScheme \in MarkingSchemes
  /\ result = EmptyResult
  /\ question = NoQuestion
  /\ before = EmptyResult
  /\ tally = [t \in Types |-> 0]
  /\ seen = {}
  /\ taken = 0
  /\ pc = "loop"
  /\ candidate = NoCandidate
  /\ verdict = "pending"
  /\ threw = FALSE
  /\ defined = TRUE
  /\ NoCalls
  /\ NoPage
  /\ NoRunner

\* questions.forEach((question) => {...}): the callback on the next
\* question of the list, which may be any question.
ForEachQuestion ==
  /\ pc = "loop"
  /\ taken < MaxQuestions
  /\ \E q \in Questions :
       /\ question' = q
       /\ before' = result
       /\ result' = ScoreQuestion(result, q, answerKey, markingScheme)
       /\ tally' = IF HasKey(answerKey, q) THEN [tally EXCEPT ![q.type] = @ + 1] ELSE tally
       /\ seen' = seen \cup {q.id}
  /\ taken' = taken + 1
  /\ UNCHANGED <<answerKey, markingScheme, pc, validatorVars, callVars, pageVars, runnerVars>>

\* return result: the list is exhausted.
Return ==
  /\ pc = "loop"
  /\ pc' = "done"
  /\ UNCHANGED <<answerKey, markingScheme, result, question, before, tally, seen, taken,
                 validatorVars, callVars, pageVars, runnerVars>>

Next == ForEachQuestion \/ Return

Spec == Init /\ [][Next]_vars

(***************************************************************************)
(* An upload: a parsed document is validated and, when validateAnswerKey   *)
(* returns true, calculateScore is called with it.                         *)
(***************************************************************************)
InitValidate ==
  /\ \/ candidate \in OtherCandidates
     \/ \E n \in 0..MaxEntries : \E es \in [1..n -> RawEntries] :
          \/ candidate = ListDocument(es)
          \/ \E pick \in Picks(n, 1) : candidate = ObjectDocument(pick, es)
  /\ verdict = "pending"
  /\ threw = FALSE
  /\ defined = TRUE
  /\ answerKey = << >>
  /\ markingScheme = defaultMarkingScheme
  /\ result = EmptyResult
  /\ question = NoQuestion
  /\ before = EmptyResult
  /\ tally = [t \in Types |-> 0]
  /\ seen = {}
  /\ taken = 0
  /\ pc = "validate"
  /\ NoCalls
  /\ NoPage
  /\ NoRunner

\* if (validateAnswerKey(json)) ... else ...
Validate ==
  /\ pc = "validate"
  /\ verdict' = IF validateAnswerKey(candidate) THEN "accepted" ELSE "rejected"
  /\ pc' = IF validateAnswerKey(candidate) THEN "loop" ELSE "done"
  /\ UNCHANGED <<answerKey, markingScheme, result, question, before, tally, seen, taken,
                 candidate, threw, defined, callVars, pageVars, runnerVars>>

\* calculateScore(questions, json, markingScheme) on the accepted document,
\* for a list of one question and any marking scheme.
ScoreAccepted ==
  /\ pc = "loop"
  /\ verdict = "accepted"
  /\ \E q \in Questions, ms \in MarkingSchemes :
       LET o == ScoreOnDocument(candidate, q, ms)
       IN /\ question' = q
          /\ markingScheme' = ms
          /\ answerKey' = o.key
          /\ result' = o.result
          /\ threw' = o.threw
          /\ defined' = o.defined
          /\ tally' = IF HasKey(o.key, q) THEN [tally EXCEPT ![q.type] = @ + 1] ELSE tally
          /\ seen' = {q.id}
  /\ taken' = 1
  /\ pc' = "done"
  /\ UNCHANGED <<before, candidate, verdict, callVars, pageVars, runnerVars>>

NextValidate == Validate \/ ScoreAccepted

SpecValidate == InitValidate /\ [][NextValidate]_vars

(***************************************************************************)
(* Successive calls of calculateScore by one caller, who passes the same   *)
(* objects again or others.                                                *)
(***************************************************************************)
\* Most calls the caller makes.
MaxCalls == 3

Q(id, type, userAnswer) == [id |-> id, type |-> type, userAnswer |-> userAnswer]

\* The arguments the caller has at hand.
CallQuestions ==
  { <<Q(1, "singleCorrect", Str("A"))>>,
    <<Q(1, "singleCorrect", Str("A")), Q(2, "multipleCorrect", Arr(<<"A", "C">>))>>,
    <<Q(2, "multipleCorrect", Arr(<<"A">>)), Q(1, "numerical", Str("9.8")),
      Q(3, "singleCorrect", Null)>> }

CallKeys == {ak \in AnswerKeys : 2 \in DOMAIN ak /\ ak[1].type = "singleCorrect"}

CallSchemes == {defaultMarkingScheme, WithGlobal(editedMarkingScheme, FALSE)}

Arguments(qs, ak, ms) == [questions |-> qs, answerKey |-> ak, markingScheme |-> ms]

\* A variant of FreshResult that goes on writing into the result object of
\* the call before.
CarriedResult(previous) == previous

\* const result: ScoreResult = { ... } (lines 88-120): every call builds a
\* result object of its own, whatever the call before left.
FreshResult(previous) == EmptyResult

InitCalls ==
  /\ answerKey = << >>
  /\ markingScheme = defaultMarkingScheme
  /\ result = EmptyResult
  /\ question = NoQuestion
  /\ before = EmptyResult
  /\ tally = [t \in Types |-> 0]
  /\ seen = {}
  /\ taken = 0
  /\ pc = "idle"
  /\ candidate = NoCandidate
  /\ verdict = "pending"
  /\ threw = FALSE
  /\ defined = TRUE
  /\ NoCalls
  /\ NoPage
  /\ NoRunner

\* calculateScore(questions, answerKey, markingScheme) is entered.
Call ==
  /\ pc = "idle"
  /\ Len(returned) < MaxCalls
  /\ \E qs \in CallQuestions, ak \in CallKeys, ms \in CallSchemes :
       /\ questions' = qs
       /\ answerKey' = ak
       /\ markingScheme' = ms
       /\ given' = Arguments(qs, ak, ms)
  /\ result' = FreshResult(result)
  /\ question' = NoQuestion
  /\ before' = EmptyResult
  /\ tally' = [t \in Types |-> 0]
  /\ seen' = {}
  /\ taken' = 0
  /\ pc' = "loop"
  /\ UNCHANGED <<validatorVars, returned, pageVars, runnerVars>>

\* The forEach callback on the next question of the list.
CallbackOnNext ==
  /\ pc = "loop"
  /\ taken < Len(questions)
  /\ LET q == questions[taken + 1]
     IN /\ question' = q
        /\ before' = result
        /\ result' = ScoreQuestion(result, q, answerKey, markingScheme)
        /\ tally' = IF HasKey(answerKey, q) THEN [tally EXCEPT ![q.type] = @ + 1] ELSE tally
        /\ seen' = seen \cup {q.id}
  /\ taken' = taken + 1
  /\ UNCHANGED <<answerKey, markingScheme, pc, validatorVars, callVars, pageVars, runnerVars>>

\* return result, after the last question.
ReturnResult ==
  /\ pc = "loop"
  /\ taken = Len(questions)
  /\ returned' = Append(returned,
                        [given |-> given,
                         arguments |-> Arguments(questions, answerKey, markingScheme),
                         result |-> result])
  /\ pc' = "idle"
  /\ UNCHANGED <<answerKey, markingScheme, result, question, before, tally, seen, taken,
                 validatorVars, questions, given, pageVars, runnerVars>>

NextCalls == Call \/ CallbackOnNext \/ ReturnResult

SpecCalls == InitCalls /\ [][NextCalls]_vars

(***************************************************************************)
(* The analysis page (part_004): its answerKey, markingScheme,             *)
(* questionMarkingSchemes and scoreResult states and the four handlers     *)
(* that call calculateScore.                                               *)
(***************************************************************************)
\* Most events the page handles.
MaxEvents == 3

\* The test results found in localStorage on mount.
LoadedResults ==
  { [questions |-> <<Q(1, "singleCorrect", Str("A")), Q(2, "multipleCorrect", Arr(<<"A", "C">>))>>],
    [questions |-> <<Q(1, "singleCorrect", Null), Q(2, "singleCorrect", Str("A"))>>] }

\* The files the user uploads, parsed: keys validateAnswerKey accepts (one
\* with marks, one with marks null, a list, one with a number among the
\* correct options) and documents it rejects.
UploadedDocuments ==
  { ObjectDocument(<<1, 2>>, <<JEntry(JStr("singleCorrect"), JStr("A"), JMarks(JNum(2), JNum(-3), JNum(-6))),
                              JEntry(JStr("multipleCorrect"), JArr(<<JStr("A"), JStr("C")>>), NoMarks)>>),
    ObjectDocument(<<1>>, <<JEntry(JStr("singleCorrect"), JStr("A"), JMarksOther(JNull))>>),
    ListDocument(<<JEntry(JStr("numerical"), JStr("9.8"), NoMarks),
                   JEntry(JStr("singleCorrect"), JStr("A"), NoMarks)>>),
    ObjectDocument(<<2>>, <<JEntry(JStr("multipleCorrect"), JArr(<<JNum(1), JStr("A")>>), NoMarks)>>),
    ObjectDocument(<<1, 2>>, <<JEntry(JStr("singleCorrect"), JStr("A"), NoMarks),
                              JEntry(JStr("singleCorrect"), JStr("A"), JMarks(JNum(2), JNum(-3), JAbsent))>>),
    ObjectDocument(<<1>>, <<JEntry(JStr("matrixMatch"), JStr("A"), NoMarks)>>),
    ObjectDocument(<< >>, << >>),
    Candidate("null", FALSE, << >>),
    Candidate("number", TRUE, << >>) }

\* What the inputs of the settings form are set to, and the fields they edit.
EditValues == {7}

Fields == {"correct", "incorrect", "unanswered"}

\* calculateScore(questions, c, ms) on a parsed document: the callback on
\* each question in turn, from the result res.
RECURSIVE ScoreDocumentFrom(_, _, _, _, _)
ScoreDocumentFrom(res, qs, i, c, ms) ==
  IF i > Len(qs) THEN res
  ELSE LET q == qs[i]
           e == Lookup(c, q)
           next == IF EntryTruthy(e) THEN ScoreQuestion(res, q, (q.id :> AsKeyEntry(e)), ms)
                   ELSE res
       IN ScoreDocumentFrom(next, qs, i + 1, c, ms)

ScoreDocument(qs, c, ms) == <<ScoreDocumentFrom(EmptyResult, qs, 1, c, ms)>>

\* Lines 123-128: a scheme for each singleCorrect question, its marks a copy
\* of markingScheme.singleCorrect.default.
InitialSchemes(qs, ms) ==
  LET single == SelectSeq(qs, LAMBDA q : q.type = "singleCorrect")
  IN [i \in 1..Len(single) |->
        [id |-> single[i].id, type |-> "singleCorrect", marks |-> ms.singleCorrect.default]]

\* Lines 203-206: every scheme with marks[field] = value.
SchemesWithField(schemes, field, value) ==
  [i \in 1..Len(schemes) |-> [schemes[i] EXCEPT !.marks[field] = value]]

\* Lines 223-231: the scheme of questionId with marks[field] = value.
SchemesWithQuestionField(schemes, questionId, field, value) ==
  [i \in 1..Len(schemes) |->
     IF schemes[i].id = questionId THEN [schemes[i] EXCEPT !.marks[field] = value]
     ELSE schemes[i]]

\* A variant of SchemeMarks that writes the correct mark only.
SchemeMarksCorrectOnly(marks) == JMarks(JNum(marks.correct), JAbsent, JAbsent)

\* marks: { ...scheme.marks } (line 242).
SchemeMarks(marks) == JMarks(JNum(marks.correct), JNum(marks.incorrect), JNum(marks.unanswered))

\* { ...updatedAnswerKey[scheme.id], marks: ... } (lines 240-243): the own
\* properties of the entry, and marks.
UpdatedEntry(e, marks) ==
  [k |-> "object", n |-> 0, type |-> e.type, correctAnswer |-> e.correctAnswer,
   marks |-> SchemeMarks(marks)]

\* Lines 239-244 for one scheme: the entry under scheme.id, if there is one.
WithSchemeMarks(c, scheme) ==
  [c EXCEPT !.entries =
     [j \in 1..Len(c.entries) |->
        IF c.entries[j].id = IdName(scheme.id) /\ EntryTruthy(c.entries[j].entry)
        THEN [id |-> c.entries[j].id, entry |-> UpdatedEntry(c.entries[j].entry, scheme.marks)]
        ELSE c.entries[j]]]

RECURSIVE WithSchemesFrom(_, _, _)
WithSchemesFrom(c, schemes, i) ==
  IF i > Len(schemes) THEN c
  ELSE WithSchemesFrom(WithSchemeMarks(c, schemes[i]), schemes, i + 1)

\* Lines 237-245: { ...answerKey }, an object with the properties of the
\* key, then the marks of every scheme written into it.
UpdatedAnswerKey(c, schemes) == WithSchemesFrom([c EXCEPT !.k = "object"], schemes, 1)

\* Lines 196-211: a copy of markingScheme with the field of the section set.
\* The copy is shallow: the singleCorrect, multipleCorrect and numerical
\* objects written to are those of the state, which useState took from the
\* exported defaultMarkingScheme (line 102).
NewMarkingScheme(ms, section, field, value) ==
  CASE section = "singleCorrect" -> [ms EXCEPT !.singleCorrect.default[field] = value]
    [] section = "numerical" -> [ms EXCEPT !.numerical[field] = value]
    [] OTHER -> ms

\* The value of the exported defaultMarkingScheme after a handler has written
\* the page's new scheme: its three nested objects are the ones written to.
SharedWrite(exported, written) ==
  [singleCorrect |-> written.singleCorrect,
   multipleCorrect |-> written.multipleCorrect,
   numerical |-> written.numerical]

\* The page once the mount effect (lines 108-136) has loaded the results.
InitAnalysis ==
  /\ testResults \in LoadedResults
  /\ markingScheme = defaultMarkingScheme
  /\ questionMarkingSchemes = InitialSchemes(testResults.questions, defaultMarkingScheme)
  /\ pageAnswerKey = NoAnswerKey
  /\ scoreResult = << >>
  /\ passed = << >>
  /\ events = 0
  /\ moduleDefaultMarkingScheme = defaultMarkingScheme
  /\ edited = 0
  /\ keyBefore = NoAnswerKey
  /\ candidate = NoCandidate
  /\ verdict = "pending"
  /\ threw = FALSE
  /\ defined = TRUE
  /\ answerKey = << >>
  /\ result = EmptyResult
  /\ question = NoQuestion
  /\ before = EmptyResult
  /\ tally = [t \in Types |-> 0]
  /\ seen = {}
  /\ taken = 0
  /\ pc = "page"
  /\ NoCalls
  /\ NoRunner

pageUnused ==
  <<answerKey, result, question, before, tally, seen, taken, pc, threw, defined, callVars,
    runnerVars>>

\* handleAnswerKeyUpload (lines 153-193): the file read and parsed; the key
\* is set and the score calculated if validateAnswerKey returns true, and a
\* message is shown otherwise.
handleAnswerKeyUpload ==
  /\ events < MaxEvents
  /\ events' = events + 1
  /\ \E json \in UploadedDocuments :
       /\ candidate' = json
       /\ IF validateAnswerKey(json)
          THEN /\ verdict' = "accepted"
               /\ pageAnswerKey' = json
               /\ scoreResult' = ScoreDocument(testResults.questions, json, markingScheme)
               /\ passed' = <<json>>
          ELSE /\ verdict' = "rejected"
               /\ UNCHANGED <<pageAnswerKey, scoreResult, passed>>
  /\ edited' = 0
  /\ keyBefore' = pageAnswerKey
  /\ UNCHANGED <<markingScheme, questionMarkingSchemes, testResults, moduleDefaultMarkingScheme,
                 pageUnused>>

\* The marking scheme settings are on the page when answerKey is set
\* (line 793).
SettingsShown == pageAnswerKey.truthy

\* handleGlobalMarkingSchemeChange (lines 195-220), from the inputs of the
\* singleCorrect and numerical sections.
handleGlobalMarkingSchemeChange ==
  /\ events < MaxEvents
  /\ SettingsShown
  /\ events' = events + 1
  /\ \E section \in {"singleCorrect", "numerical"}, field \in Fields, value \in EditValues :
       LET newMarkingScheme == NewMarkingScheme(markingScheme, section, field, value)
       IN /\ questionMarkingSchemes' =
               IF section = "singleCorrect" /\ newMarkingScheme.singleCorrect.global
               THEN SchemesWithField(questionMarkingSchemes, field, value)
               ELSE questionMarkingSchemes
          /\ markingScheme' = newMarkingScheme
          /\ moduleDefaultMarkingScheme' = SharedWrite(moduleDefaultMarkingScheme, newMarkingScheme)
          /\ IF pageAnswerKey.truthy
             THEN /\ scoreResult' = ScoreDocument(testResults.questions, pageAnswerKey, newMarkingScheme)
                  /\ passed' = <<pageAnswerKey>>
             ELSE UNCHANGED <<scoreResult, passed>>
  /\ edited' = 0
  /\ keyBefore' = pageAnswerKey
  /\ UNCHANGED <<pageAnswerKey, testResults, candidate, verdict, pageUnused>>

\* handleQuestionMarkingSchemeChange (lines 222-255), from the inputs of one
\* of the schemes listed.
handleQuestionMarkingSchemeChange ==
  /\ events < MaxEvents
  /\ SettingsShown
  /\ events' = events + 1
  /\ \E i \in 1..Len(questionMarkingSchemes), field \in Fields, value \in EditValues :
       LET updatedSchemes == SchemesWithQuestionField(questionMarkingSchemes,
                                                      questionMarkingSchemes[i].id, field, value)
           updatedAnswerKey == UpdatedAnswerKey(pageAnswerKey, updatedSchemes)
       IN /\ questionMarkingSchemes' = updatedSchemes
          /\ IF pageAnswerKey.truthy
             THEN /\ pageAnswerKey' = updatedAnswerKey
                  /\ scoreResult' = ScoreDocument(testResults.questions, updatedAnswerKey, markingScheme)
                  /\ passed' = <<updatedAnswerKey>>
             ELSE UNCHANGED <<pageAnswerKey, scoreResult, passed>>
          /\ edited' = questionMarkingSchemes[i].id
  /\ keyBefore' = pageAnswerKey
  /\ UNCHANGED <<markingScheme, testResults, candidate, verdict, moduleDefaultMarkingScheme,
                 pageUnused>>

\* toggleGlobalMarkingScheme (lines 257-267), from the switch.
toggleGlobalMarkingScheme ==
  /\ events < MaxEvents
  /\ SettingsShown
  /\ events' = events + 1
  /\ \E value \in BOOLEAN :
       LET newMarkingScheme == WithGlobal(markingScheme, value)
       IN /\ markingScheme' = newMarkingScheme
          /\ moduleDefaultMarkingScheme' = SharedWrite(moduleDefaultMarkingScheme, newMarkingScheme)
          /\ IF pageAnswerKey.truthy
             THEN /\ scoreResult' = ScoreDocument(testResults.questions, pageAnswerKey, newMarkingScheme)
                  /\ passed' = <<pageAnswerKey>>
             ELSE UNCHANGED <<scoreResult, passed>>
  /\ edited' = 0
  /\ keyBefore' = pageAnswerKey
  /\ UNCHANGED <<pageAnswerKey, questionMarkingSchemes, testResults, candidate, verdict, pageUnused>>

\* The user leaves the page and comes back: a new AnalysisPage is mounted
\* (lines 96-136), its markingScheme state the exported defaultMarkingScheme
\* as it is now.
mount ==
  /\ events < MaxEvents
  /\ events' = events + 1
  /\ markingScheme' = moduleDefaultMarkingScheme
  /\ questionMarkingSchemes' = InitialSchemes(testResults.questions, moduleDefaultMarkingScheme)
  /\ pageAnswerKey' = NoAnswerKey
  /\ scoreResult' = << >>
  /\ passed' = << >>
  /\ candidate' = NoCandidate
  /\ verdict' = "pending"
  /\ edited' = 0
  /\ keyBefore' = NoAnswerKey
  /\ UNCHANGED <<testResults, moduleDefaultMarkingScheme, pageUnused>>

NextAnalysis ==
  \/ mount
  \/ handleAnswerKeyUpload
  \/ handleGlobalMarkingSchemeChange
  \/ handleQuestionMarkingSchemeChange
  \/ toggleGlobalMarkingScheme

SpecAnalysis == InitAnalysis /\ [][NextAnalysis]_vars

(***************************************************************************)
(* StorageService (storage-service.ts): saveData, loadData and clearData   *)
(* on the localStorage items testProgress and serverTestProgress.          *)
(***************************************************************************)
\* Most StorageService calls made.
MaxStorageCalls == 3

LOCAL_STORAGE_KEY == "testProgress"

SERVER_STORAGE_KEY == "serverTestProgress"

\* Data given to saveData: null, or an object, some of whose properties may
\* be undefined (as testStartTime?.toISOString() can be).
ObjectData(props) == [kind |-> "object", props |-> props]

\* d[name]: undefined for a property that is not there.
ReadProperty(d, name) ==
  IF d.kind = "object" /\ name \in DOMAIN d.props THEN d.props[name] ELSE JAbsent

\* JSON.stringify(data): the text of data without its undefined properties.
\* JSON.parse of an item gives back the value its text denotes.
JSONStringify(d) ==
  [present |-> TRUE,
   parses |-> TRUE,
   value |-> IF d.kind = "object"
             THEN ObjectData([name \in {x \in DOMAIN d.props : d.props[x].k # "absent"} |-> d.props[name]])
             ELSE d]

\* An item that JSON.parse throws on.
BrokenItem == [present |-> TRUE, parses |-> FALSE, value |-> NullData]

StorageData ==
  { ObjectData("timeRemaining" :> JNum(60)),
    ObjectData(("timeRemaining" :> JNum(30)) @@ ("testStartTime" :> JAbsent)),
    NullData }

\* localStorage after saveData(data, { useServerStorage }) (lines 14-35).
SaveData(storage, data, useServerStorage) ==
  [storage EXCEPT ![LOCAL_STORAGE_KEY] = JSONStringify(data),
                  ![SERVER_STORAGE_KEY] = IF useServerStorage THEN JSONStringify(data) ELSE @]

\* What loadData({ useServerStorage }) resolves to (lines 38-62): null when
\* no item is read that parses.
LoadData(storage, useServerStorage) ==
  IF useServerStorage /\ storage[SERVER_STORAGE_KEY].present /\ storage[SERVER_STORAGE_KEY].parses
    THEN storage[SERVER_STORAGE_KEY].value
  ELSE IF storage[LOCAL_STORAGE_KEY].present /\ storage[LOCAL_STORAGE_KEY].parses
    THEN storage[LOCAL_STORAGE_KEY].value
  ELSE NullData

\* localStorage after clearData({ useServerStorage }) (lines 65-80).
ClearData(storage, useServerStorage) ==
  [storage EXCEPT ![LOCAL_STORAGE_KEY] = NoItem,
                  ![SERVER_STORAGE_KEY] = IF useServerStorage THEN NoItem ELSE @]

Logged(name, useServerStorage, data) ==
  [name |-> name, useServerStorage |-> useServerStorage, data |-> data]

\* Any storage state: each of the two items absent, some data, or broken.
InitStorage ==
  /\ \E local, server \in {NoItem, BrokenItem} \cup {JSONStringify(d) : d \in StorageData} :
       localStorage = [name \in {"testConfig", "testProgress", "serverTestProgress", "testResults"} |->
                         CASE name = LOCAL_STORAGE_KEY -> local
                           [] name = SERVER_STORAGE_KEY -> server
                           [] OTHER -> NoItem]
  /\ storageLog = << >>
  /\ answerKey = << >>
  /\ markingScheme = defaultMarkingScheme
  /\ result = EmptyResult
  /\ question = NoQuestion
  /\ before = EmptyResult
  /\ tally = [t \in Types |-> 0]
  /\ seen = {}
  /\ taken = 0
  /\ pc = "storage"
  /\ candidate = NoCandidate
  /\ verdict = "pending"
  /\ threw = FALSE
  /\ defined = TRUE
  /\ NoCalls
  /\ NoPage
  /\ NoTest

saveData ==
  /\ Len(storageLog) < MaxStorageCalls
  /\ \E data \in StorageData, useServerStorage \in BOOLEAN :
       /\ localStorage' = SaveData(localStorage, data, useServerStorage)
       /\ storageLog' = Append(storageLog, Logged("saveData", useServerStorage, data))
  /\ UNCHANGED <<scoreVars, validatorVars, callVars, pageVars, testVars>>

loadData ==
  /\ Len(storageLog) < MaxStorageCalls
  /\ \E useServerStorage \in BOOLEAN :
       storageLog' = Append(storageLog,
                            Logged("loadData", useServerStorage, LoadData(localStorage, useServerStorage)))
  /\ UNCHANGED <<localStorage, scoreVars, validatorVars, callVars, pageVars, testVars>>

clearData ==
  /\ Len(storageLog) < MaxStorageCalls
  /\ \E useServerStorage \in BOOLEAN :
       /\ localStorage' = ClearData(localStorage, useServerStorage)
       /\ storageLog' = Append(storageLog, Logged("clearData", useServerStorage, NullData))
  /\ UNCHANGED <<scoreVars, validatorVars, callVars, pageVars, testVars>>

NextStorage == saveData \/ loadData \/ clearData

SpecStorage == InitStorage /\ [][NextStorage]_vars

(***************************************************************************)
(* The test runner: handleStartTest of the configure page (part_003) and   *)
(* the test page (src/app/test/page.tsx).  Dates (testStartTime, lastSaved, *)
(* questionStartTime, timeSpent) and screenshots are left out of the state. *)
(*                                                                         *)
(* A state update and the render and effects that follow it are one step.  *)
(* What runs later is a step of its own: the callback of a setTimeout, an   *)
(* interval tick, and the code after an await on the network.               *)
(***************************************************************************)
\* Most user events the test page handles.
MaxTestEvents == 2

\* The timer is followed over the last MaxTimed seconds of a test.
MaxTimed == 2

\* Most Supabase upserts under way at a time.
MaxPending == 1

\* How far below 0 the timer is followed once the test is submitted.
MaxOvertime == 1

JBool(b) == J("boolean", "", IF b THEN 1 ELSE 0, << >>)

\* questionTypes of the basic tab (part_003, line 171).
QuestionTypes(singleCorrect, multipleCorrect, numerical) ==
  [k |-> "object", singleCorrect |-> singleCorrect, multipleCorrect |-> multipleCorrect,
   numerical |-> numerical]

\* The testConfig handleStartTest creates (part_003, lines 168-177).
TestConfig(numQuestions, timeInMinutes, activeTab, questionTypes, specificQuestionTypes, useServerStorage) ==
  ObjectData([numQuestions |-> JNum(numQuestions),
              timeInMinutes |-> JNum(timeInMinutes),
              questionTypes |-> IF activeTab = "basic" THEN questionTypes ELSE JNull,
              specificQuestionTypes |-> IF activeTab = "advanced" THEN JArr(specificQuestionTypes) ELSE JNull,
              configType |-> JStr(activeTab),
              useServerStorage |-> JBool(useServerStorage)])

\* The forms handleStartTest is given: an advanced one of two questions kept
\* in "server" storage and a basic one of one numerical question.
AdvancedConfig ==
  TestConfig(2, 1, "advanced", QuestionTypes(TRUE, FALSE, FALSE), <<"singleCorrect", "multipleCorrect">>, TRUE)

BasicConfig ==
  TestConfig(1, 1, "basic", QuestionTypes(FALSE, FALSE, TRUE), <<"numerical">>, FALSE)

TestConfigs == {AdvancedConfig, BasicConfig}

\* config.timeInMinutes * 60
FullTime(config) == config.props.timeInMinutes.n * 60

\* availableTypes (lines 277-280).
AvailableTypes(questionTypes) ==
  SelectSeq(<<"singleCorrect", "multipleCorrect", "numerical">>, LAMBDA t : questionTypes[t])

\* generatedQuestions (lines 272-312).
GeneratedType(config, i) ==
  IF config.props.configType.s = "basic"
    THEN AvailableTypes(config.props.questionTypes)[((i - 1) % Len(AvailableTypes(config.props.questionTypes))) + 1]
    ELSE config.props.specificQuestionTypes.a[i]

GeneratedQuestions(config) ==
  [i \in 1..config.props.numQuestions.n |->
     TestQuestion(i, GeneratedType(config, i),
                  IF GeneratedType(config, i) = "multipleCorrect" THEN Arr(<< >>) ELSE Null,
                  FALSE, i = 1)]

\* progressData (lines 142-150 and 335-343).
ProgressData(qs, currentQuestionIndex, timeRemaining, testConfig) ==
  ObjectData([questions |-> [k |-> "array", list |-> qs],
              currentQuestionIndex |-> JNum(currentQuestionIndex),
              timeRemaining |-> JNum(timeRemaining),
              testConfig |-> [k |-> "object", props |-> testConfig.props]])

\* testResults (lines 802-809).
TestResults(qs, testConfig) ==
  ObjectData([questions |-> [k |-> "array", list |-> qs],
              testConfig |-> [k |-> "object", props |-> testConfig.props]])

\* fixedQuestions (lines 236-241).
FixedQuestions(qs) ==
  [i \in 1..Len(qs) |->
     IF qs[i].type = "multipleCorrect" /\ qs[i].userAnswer = Null
       THEN [qs[i] EXCEPT !.userAnswer = Arr(<< >>)]
       ELSE qs[i]]

\* a || b on numbers
OrElse(a, b) == IF a # 0 THEN a ELSE b

\* The testState loadTest sets when it restores savedProgress (250-262).
RestoredState(savedProgress, config) ==
  [questions |-> FixedQuestions(savedProgress.props.questions.list),
   currentQuestionIndex |-> OrElse(savedProgress.props.currentQuestionIndex.n, 0),
   timeRemaining |-> OrElse(savedProgress.props.timeRemaining.n, FullTime(config)),
   testConfig |-> config,
   useServerStorage |-> Truthy(config.props.useServerStorage),
   isLoading |-> FALSE,
   testSubmitted |-> FALSE]

\* The testState loadTest sets for a new test (321-332).
NewState(config) ==
  [questions |-> GeneratedQuestions(config),
   currentQuestionIndex |-> 0,
   timeRemaining |-> FullTime(config),
   testConfig |-> config,
   useServerStorage |-> Truthy(config.props.useServerStorage),
   isLoading |-> FALSE,
   testSubmitted |-> FALSE]

\* Whether the page renders the test rather than "Loading test..." (873-879).
Renders(ts) == ~ts.isLoading /\ ts.testConfig # NullData /\ Len(ts.questions) > 0

InRange(ts) ==
  /\ Len(ts.questions) > 0
  /\ ts.currentQuestionIndex >= 0
  /\ ts.currentQuestionIndex < Len(ts.questions)

\* questions[currentQuestionIndex]
Current(ts) == ts.questions[ts.currentQuestionIndex + 1]

\* currentQuestion of a render (line 882): the ref's question before the
\* effect of lines 368-374 has run for this render.
Shown(ts, ref) ==
  IF Renders(ts) THEN (IF ref # NullQuestion THEN ref ELSE Current(ts)) ELSE NullQuestion

\* currentQuestionRef.current after the effect of lines 368-374.
RefAfterEffect(ts, ref) == IF InRange(ts) THEN Current(ts) ELSE ref

\* testState becomes ts: the render and the effect that follow.  ref is
\* currentQuestionRef.current as the handler left it.
Commit(ts, ref) ==
  /\ testState' = ts
  /\ shown' = Shown(ts, ref)
  /\ currentQuestionRef' = RefAfterEffect(ts, ref)

\* A pending Supabase upsert of progress data by loadTest or saveProgress.
Upsert(by, data) == [by |-> by, data |-> data]

\* Progress an earlier attempt left behind: saved by this page, or by an
\* older one that stored null for a multipleCorrect question and had not
\* marked question 1 visited (what lines 236-241 and 380-396 repair).
EarlierProgress ==
  { ProgressData(<<TestQuestion(1, "singleCorrect", Str("A"), FALSE, TRUE),
                   TestQuestion(2, "multipleCorrect", Arr(<<"B">>), FALSE, TRUE)>>, 1, 2, AdvancedConfig),
    ProgressData(<<TestQuestion(1, "singleCorrect", Null, FALSE, FALSE),
                   TestQuestion(2, "multipleCorrect", Null, FALSE, FALSE)>>, 0, 1, AdvancedConfig) }

StoredItem(d) == IF d = NullData THEN NoItem ELSE JSONStringify(d)

\* The configure page or the test page is opened; an earlier attempt may have
\* left its testConfig and progress in localStorage and, for a signed-in
\* user, in test_progress.
InitTest ==
  /\ \E stored \in EarlierProgress \cup {NullData}, opened \in {"configure", "test"} :
       /\ opened = "test" => stored # NullData
       /\ route = opened
       /\ localStorage = [name \in {"testConfig", "testProgress", "serverTestProgress", "testResults"} |->
                            CASE name = "testConfig" -> StoredItem(IF stored = NullData THEN NullData ELSE AdvancedConfig)
                              [] name = LOCAL_STORAGE_KEY -> StoredItem(stored)
                              [] name = SERVER_STORAGE_KEY -> StoredItem(stored)
                              [] OTHER -> NoItem]
  /\ user \in BOOLEAN
  /\ testProgressRow \in (IF user THEN EarlierProgress ELSE {}) \cup {NullData}
  /\ storageLog = << >>
  /\ testState = InitialTestState
  /\ currentQuestionRef = NullQuestion
  /\ shown = NullQuestion
  /\ timeouts = << >>
  /\ upserts = << >>
  /\ submitStage = "idle"
  /\ started = NullData
  /\ lastWritten = NoWritten
  /\ lateWrite = FALSE
  /\ testEvents = 0
  /\ answerKey = << >>
  /\ markingScheme = defaultMarkingScheme
  /\ result = EmptyResult
  /\ question = NoQuestion
  /\ before = EmptyResult
  /\ tally = [t \in Types |-> 0]
  /\ seen = {}
  /\ taken = 0
  /\ pc = "test"
  /\ candidate = NoCandidate
  /\ verdict = "pending"
  /\ threw = FALSE
  /\ defined = TRUE
  /\ NoCalls
  /\ NoPage

testUnused == <<scoreVars, validatorVars, callVars, pageVars, storageLog>>

\* handleStartTest (part_003, lines 136-187) with a valid form, up to the
\* router.push("/test") that mounts the test page.
handleStartTest ==
  /\ route = "configure"
  /\ \E config \in TestConfigs :
       /\ localStorage' = ClearData([localStorage EXCEPT !["testConfig"] = JSONStringify(config)],
                                    Truthy(config.props.useServerStorage))
       /\ started' = config
  /\ route' = "test"
  /\ Commit(InitialTestState, NullQuestion)
  /\ UNCHANGED <<user, timeouts, upserts, submitStage, testProgressRow, lastWritten, lateWrite, testEvents>>
  /\ UNCHANGED testUnused

\* savedProgress of loadTest (lines 205-232): the Supabase row of a signed-in
\* user if there is one, otherwise what StorageService.loadData gives.
SavedProgress(config) ==
  IF user /\ testProgressRow # NullData
    THEN testProgressRow
    ELSE LoadData(localStorage, Truthy(config.props.useServerStorage))

\* loadTest (lines 189-366), whose awaits end before the page shows the test.
\* The upsert that follows the first save of a new test is left pending.
loadTest ==
  /\ route = "test"
  /\ testState.isLoading
  /\ IF ~localStorage["testConfig"].present
       THEN /\ route' = "configure"
            /\ UNCHANGED <<localStorage, testState, currentQuestionRef, shown, upserts>>
       ELSE LET config == localStorage["testConfig"].value
                savedProgress == SavedProgress(config)
                progressData == ProgressData(GeneratedQuestions(config), 0, FullTime(config), config)
            IN /\ route' = route
               /\ IF savedProgress # NullData
                    THEN /\ Commit(RestoredState(savedProgress, config),
                                   IF InRange(RestoredState(savedProgress, config))
                                     THEN Current(RestoredState(savedProgress, config))
                                     ELSE currentQuestionRef)
                         /\ UNCHANGED <<localStorage, upserts>>
                    ELSE /\ Commit(NewState(config), GeneratedQuestions(config)[1])
                         /\ localStorage' = SaveData(localStorage, progressData, Truthy(config.props.useServerStorage))
                         /\ upserts' = IF user THEN Append(upserts, Upsert("loadTest", progressData)) ELSE upserts
  /\ UNCHANGED <<user, timeouts, submitStage, testProgressRow, started, lastWritten, lateWrite, testEvents>>
  /\ UNCHANGED testUnused

\* The options and the numerical value the user picks from.
Options == {"A"}

NumericalInputs == {"5"}

\* What an event handler of the page does besides its own state update: the
\* render, the setTimeout(() => saveProgress(false), 0) whose saveProgress
\* is the one of the render the handler belongs to, and the bookkeeping.
Handled(ts, ref, w) ==
  /\ Commit(ts, ref)
  /\ timeouts' = Append(timeouts, testState)
  /\ lastWritten' = w
  /\ testEvents' = testEvents + 1
  /\ UNCHANGED <<localStorage, route, user, upserts, submitStage, testProgressRow, started, lateWrite>>
  /\ UNCHANGED testUnused

\* The record of an answer written to questions[currentQuestionIndex]; its
\* deferred save is the last of the timeouts then pending.
Written(userAnswer) ==
  IF testState.testSubmitted
    THEN NoWritten
    ELSE [set |-> TRUE, at |-> testState.currentQuestionIndex, userAnswer |-> userAnswer,
          ticket |-> Len(timeouts) + 1, saved |-> FALSE]

\* The user can act on the page and the bound on events is not reached.
UserActs ==
  /\ route = "test"
  /\ Renders(testState)
  /\ testEvents < MaxTestEvents

WithUserAnswer(q, userAnswer) == [q EXCEPT !.userAnswer = userAnswer, !.isVisited = TRUE]

OnRef(q) == IF currentQuestionRef # NullQuestion THEN q ELSE currentQuestionRef

\* handleSingleCorrectAnswerChange (lines 442-474), from the RadioGroup that
\* is rendered for a currentQuestion of type singleCorrect.
handleSingleCorrectAnswerChange ==
  /\ UserActs
  /\ shown.type = "singleCorrect"
  /\ \E answer \in Options :
       Handled([testState EXCEPT !.questions[testState.currentQuestionIndex + 1] = WithUserAnswer(@, Str(answer))],
               OnRef(WithUserAnswer(currentQuestionRef, Str(answer))),
               Written(Str(answer)))

\* newAnswers of handleMultipleCorrectAnswerChange.
NewAnswers(userAnswer, option, checked) ==
  LET currentAnswers == IF IsArray(userAnswer) THEN userAnswer.arr ELSE << >>
  IN IF checked
       THEN Append(currentAnswers, option)
       ELSE SelectSeq(currentAnswers, LAMBDA ans : ans # option)

\* handleMultipleCorrectAnswerChange (lines 477-536), from a Checkbox of a
\* currentQuestion of type multipleCorrect: checked is the opposite of what
\* the box shows.
handleMultipleCorrectAnswerChange ==
  /\ UserActs
  /\ shown.type = "multipleCorrect"
  /\ \E option \in Options :
       LET checked == ~(IsArray(shown.userAnswer) /\ Includes(shown.userAnswer.arr, option))
           newAnswers == Arr(NewAnswers(Current(testState).userAnswer, option, checked))
       IN Handled([testState EXCEPT !.questions[testState.currentQuestionIndex + 1] = WithUserAnswer(@, newAnswers)],
                  OnRef(WithUserAnswer(currentQuestionRef,
                                       Arr(NewAnswers(currentQuestionRef.userAnswer, option, checked)))),
                  Written(newAnswers))

\* handleNumericalAnswerChange (lines 539-570), from the Input of a
\* currentQuestion of type numerical.
handleNumericalAnswerChange ==
  /\ UserActs
  /\ shown.type = "numerical"
  /\ \E value \in NumericalInputs :
       Handled([testState EXCEPT !.questions[testState.currentQuestionIndex + 1] = WithUserAnswer(@, Str(value))],
               OnRef(WithUserAnswer(currentQuestionRef, Str(value))),
               Written(Str(value)))

\* hasAnswer (lines 885-887).
HasAnswer(q) ==
  /\ q.userAnswer # Null
  /\ IsArray(q.userAnswer) => Len(q.userAnswer.arr) > 0

Cleared(q) == [q EXCEPT !.userAnswer = IF q.type = "multipleCorrect" THEN Arr(<< >>) ELSE Null]

\* handleClearResponse (lines 573-619), from the button shown when
\* currentQuestion has an answer.
handleClearResponse ==
  /\ UserActs
  /\ HasAnswer(shown)
  /\ Handled([testState EXCEPT !.questions[testState.currentQuestionIndex + 1] = Cleared(@)],
             OnRef(Cleared(currentQuestionRef)),
             NoWritten)

Marked(q) == [q EXCEPT !.isMarkedForReview = ~@, !.isVisited = TRUE]

\* handleMarkForReview (lines 621-649).
handleMarkForReview ==
  /\ UserActs
  /\ Handled([testState EXCEPT !.questions[testState.currentQuestionIndex + 1] = Marked(@)],
             OnRef(Marked(currentQuestionRef)),
             NoWritten)

\* updatedQuestions of goToQuestion(index) (lines 668-700): question 1 is
\* marked visited, the question at currentQuestionIndex is replaced by
\* currentQuestionData, the destination is marked visited.
Navigated(qs, currentQuestionIndex, currentQuestionData, index) ==
  LET first == [qs EXCEPT ![1].isVisited = TRUE]
      left == [first EXCEPT ![currentQuestionIndex + 1] = [currentQuestionData EXCEPT !.isVisited = TRUE]]
  IN [left EXCEPT ![index + 1].isVisited = TRUE]

\* goToQuestion(index) (lines 652-753), from Previous, Next or the palette.
goToQuestion ==
  /\ UserActs
  /\ \E index \in 0..(Len(testState.questions) - 1) :
       LET currentQuestionData ==
             IF currentQuestionRef # NullQuestion THEN currentQuestionRef ELSE Current(testState)
       IN Handled([testState EXCEPT !.questions = Navigated(@, testState.currentQuestionIndex, currentQuestionData, index),
                                    !.currentQuestionIndex = index],
                  currentQuestionRef,
                  NoWritten)

\* A state update outside the handlers: no timeout, no user event.
Updated(ts) ==
  /\ Commit(ts, currentQuestionRef)
  /\ UNCHANGED <<localStorage, route, user, timeouts, upserts, submitStage, testProgressRow, started,
                 lastWritten, lateWrite, testEvents>>
  /\ UNCHANGED testUnused

\* handleQuestionOneVisited (lines 380-396), on the event the palette
\* dispatches from its effect when question 1 is not marked visited
\* (question-palette.tsx, lines 21-36).
handleQuestionOneVisited ==
  /\ route = "test"
  /\ Renders(testState)
  /\ ~testState.questions[1].isVisited
  /\ Updated([testState EXCEPT !.questions = [testState.questions EXCEPT ![1].isVisited = TRUE]])

\* The effect of lines 845-860.
markQuestionOneVisited ==
  /\ route = "test"
  /\ Len(testState.questions) > 0
  /\ ~testState.questions[1].isVisited
  /\ Updated([testState EXCEPT !.questions[1].isVisited = TRUE])

\* The guard of saveProgress (line 110) on the testState of its closure.
SaveGuard(ts) == ts.testConfig # NullData /\ ~ts.testSubmitted /\ Len(ts.questions) # 0

\* saveProgress (lines 96-186) of the render whose testState is ts, up to
\* its await on the upsert: it sets questions to those of ts, saves the
\* progress of ts and, for a signed-in user, goes on to upsert it.  A state
\* update changes nothing once the page is unmounted.
SaveProgress(ts) ==
  LET progressData == ProgressData(ts.questions, ts.currentQuestionIndex, ts.timeRemaining, ts.testConfig)
  IN IF SaveGuard(ts)
       THEN /\ IF route = "test"
                 THEN Commit([testState EXCEPT !.questions = ts.questions], currentQuestionRef)
                 ELSE UNCHANGED <<testState, shown, currentQuestionRef>>
            /\ localStorage' = SaveData(localStorage, progressData, ts.useServerStorage)
            /\ upserts' = IF user THEN Append(upserts, Upsert("saveProgress", progressData)) ELSE upserts
            /\ lateWrite' = (lateWrite \/ submitStage # "idle")
       ELSE UNCHANGED <<testState, shown, currentQuestionRef, localStorage, upserts, lateWrite>>

\* Room for one more upsert.
CanUpsert == user => Len(upserts) < MaxPending

\* The callback of the oldest pending setTimeout runs.
timeoutFires ==
  /\ timeouts # << >>
  /\ CanUpsert
  /\ SaveProgress(Head(timeouts))
  /\ timeouts' = Tail(timeouts)
  /\ lastWritten' =
       IF lastWritten.set /\ lastWritten.ticket > 0
         THEN [lastWritten EXCEPT
                 !.ticket = @ - 1,
                 !.saved = IF lastWritten.ticket = 1
                             THEN /\ SaveGuard(Head(timeouts))
                                  /\ Head(timeouts).questions[lastWritten.at + 1].userAnswer = lastWritten.userAnswer
                             ELSE @]
         ELSE lastWritten
  /\ UNCHANGED <<route, user, submitStage, testProgressRow, started, testEvents>>
  /\ UNCHANGED testUnused

\* A tick of the autosave interval (lines 398-412), which is set up again
\* with the saveProgress of every render.
autosaveTick ==
  /\ route = "test"
  /\ ~testState.isLoading
  /\ ~testState.testSubmitted
  /\ SaveGuard(testState)
  /\ CanUpsert
  /\ SaveProgress(testState)
  /\ UNCHANGED <<route, user, timeouts, submitStage, testProgressRow, started, lastWritten, testEvents>>
  /\ UNCHANGED testUnused

\* A pending upsert reaches test_progress (lines 158-162 and 350-354).
upsertArrives ==
  /\ upserts # << >>
  /\ testProgressRow' = Head(upserts).data
  /\ upserts' = Tail(upserts)
  /\ lateWrite' = (lateWrite \/ (Head(upserts).by = "saveProgress" /\ submitStage # "idle"))
  /\ UNCHANGED <<localStorage, route, user, testState, currentQuestionRef, shown, timeouts, submitStage,
                 started, lastWritten, testEvents>>
  /\ UNCHANGED testUnused

\* handleSubmitTest (lines 755-840) of the render whose testState is ts, up
\* to its first await on the network: testSubmitted is set and testResults
\* stored; without a signed-in user clearData has removed its items as well.
SubmitTest(ts) ==
  LET stored == [localStorage EXCEPT !["testResults"] = JSONStringify(TestResults(ts.questions, ts.testConfig))]
  IN /\ Commit([ts EXCEPT !.testSubmitted = TRUE], currentQuestionRef)
     /\ localStorage' = IF user THEN stored ELSE ClearData(stored, ts.useServerStorage)
     /\ submitStage' = IF user THEN "supabase" ELSE "push"

\* The Submit button of the dialog.
handleSubmitTest ==
  /\ route = "test"
  /\ Renders(testState)
  /\ submitStage = "idle"
  /\ testEvents < MaxTestEvents
  /\ SubmitTest(testState)
  /\ lastWritten' = NoWritten
  /\ testEvents' = testEvents + 1
  /\ UNCHANGED <<route, user, timeouts, upserts, testProgressRow, started, lateWrite>>
  /\ UNCHANGED testUnused

\* handleSubmitTest of a signed-in user after its awaits on test_results and
\* test_progress (lines 814-831): the row is deleted, clearData is called.
afterSupabase ==
  /\ submitStage = "supabase"
  /\ testProgressRow' = NullData
  /\ localStorage' = ClearData(localStorage, testState.useServerStorage)
  /\ submitStage' = "push"
  /\ UNCHANGED <<route, user, testState, currentQuestionRef, shown, timeouts, upserts, started,
                 lastWritten, lateWrite, testEvents>>
  /\ UNCHANGED testUnused

\* handleSubmitTest after clearData has resolved: router.push("/analysis").
afterClearData ==
  /\ submitStage = "push"
  /\ route' = "analysis"
  /\ submitStage' = "done"
  /\ UNCHANGED <<localStorage, user, testState, currentQuestionRef, shown, timeouts, upserts,
                 testProgressRow, started, lastWritten, lateWrite, testEvents>>
  /\ UNCHANGED testUnused

\* A timer whose tick leaves timeRemaining as it is.
TickStuck(timeRemaining) == timeRemaining

\* timeRemaining after a tick of the timer (line 434).
Tick(timeRemaining) == timeRemaining - 1

\* A tick of the 1-second timer and the timer effect of the render that
\* follows (lines 414-439): the interval runs unless the time is up and the
\* test not submitted; when the time is up handleSubmitTest is called.
timerTick ==
  /\ route = "test"
  /\ ~testState.isLoading
  /\ ~(testState.timeRemaining <= 0 /\ ~testState.testSubmitted)
  /\ testState.timeRemaining <= MaxTimed
  /\ testState.timeRemaining > -MaxOvertime
  /\ LET ticked == [testState EXCEPT !.timeRemaining = Tick(@)]
     IN IF ticked.timeRemaining <= 0 /\ ~ticked.testSubmitted /\ ticked.testConfig # NullData
          THEN /\ SubmitTest(ticked)
               /\ lastWritten' = NoWritten
          ELSE /\ Commit(ticked, currentQuestionRef)
               /\ UNCHANGED <<localStorage, submitStage, lastWritten>>
  /\ UNCHANGED <<route, user, timeouts, upserts, testProgressRow, started, lateWrite, testEvents>>
  /\ UNCHANGED testUnused

NextTest ==
  \/ handleStartTest
  \/ loadTest
  \/ handleSingleCorrectAnswerChange
  \/ handleMultipleCorrectAnswerChange
  \/ handleNumericalAnswerChange
  \/ handleClearResponse
  \/ handleMarkForReview
  \/ goToQuestion
  \/ handleQuestionOneVisited
  \/ markQuestionOneVisited
  \/ timeoutFires
  \/ autosaveTick
  \/ upsertArrives
  \/ timerTick
  \/ handleSubmitTest
  \/ afterSupabase
  \/ afterClearData

SpecTest == InitTest /\ [][NextTest]_vars

\* The test page with a timer that keeps ticking.
SpecTimer == InitTest /\ [][NextTest]_vars /\ WF_vars(timerTick)

(***************************************************************************)
(* Properties of calculateScore.  They read the callback's last step off   *)
(* the state: `question` is the question it ran on, `before` the result    *)
(* when it started and `result` the result when it ended.                  *)
(***************************************************************************)
\* The callback has run on `question` and found a key entry for it.
Keyed == taken > 0 /\ HasKey(answerKey, question)

\* That key entry, and what the callback recorded for the question.
TheKey == answerKey[question.id]

TheScore == result.questionScores[question.id]

\* The multipleCorrect bucket before and after the step, and its six outcome
\* counters as one record.
McBefore == before.sectionScores.multipleCorrect

McAfter == result.sectionScores.multipleCorrect

McCounters(sec) ==
  [allCorrect |-> sec.allCorrect,
   allCorrectOptionsThreeMarked |-> sec.partialCorrect.allCorrectOptionsThreeMarked,
   twoCorrectOptionsMarked |-> sec.partialCorrect.twoCorrectOptionsMarked,
   oneCorrectOptionMarked |-> sec.partialCorrect.oneCorrectOptionMarked,
   anyIncorrect |-> sec.anyIncorrect,
   unanswered |-> sec.unanswered]

\* The step scored `s` in the multipleCorrect section and incremented the
\* counter `c` by one and no other counter of the section.
McScored(s, c) ==
  /\ TheScore.score = s
  /\ McAfter.score = McBefore.score + s
  /\ McCounters(McAfter) = [McCounters(McBefore) EXCEPT ![c] = @ + 1]

\* A multipleCorrect question with a key entry whose correctAnswer is a list,
\* answered with a non-empty list.
MarkedList ==
  /\ Keyed
  /\ question.type = "multipleCorrect"
  /\ IsArray(question.userAnswer)
  /\ Len(question.userAnswer.arr) > 0
  /\ IsArray(TheKey.correctAnswer)

MarkedCount == Len(question.userAnswer.arr)

CorrectCount == Len(TheKey.correctAnswer.arr)

\* Every marked option is in the key's correct list.
AllMarkedCorrect ==
  \A i \in 1..MarkedCount :
    \E j \in 1..CorrectCount : question.userAnswer.arr[i] = TheKey.correctAnswer.arr[j]

\* The scheme's marks are the default ones (whatever the global flag).
DefaultMarks == markingScheme = WithGlobal(defaultMarkingScheme, markingScheme.singleCorrect.global)

\* C1: a multipleCorrect question whose marked options (at least one) are all
\* in the key's correct list gets the tier of the first rule that matches:
\* (1) as many marked as correct: allCorrect and isCorrect; (2) 4 correct and
\* 3 marked: allCorrectOptionsThreeMarked; (3) 3 or more correct and 2 marked:
\* twoCorrectOptionsMarked; (4) 2 or more correct and 1 marked:
\* oneCorrectOptionMarked; that tier's counter goes up by exactly one.  With
\* the correct list A, C, D and the default marks: 4 for A, C, D; 2 for A, C;
\* 1 for A.
C1_LadderTiers ==
  (MarkedList /\ AllMarkedCorrect) =>
    LET mc == markingScheme.multipleCorrect
        m == MarkedCount
        c == CorrectCount
        r1 == m = c
        r2 == c = 4 /\ m = 3
        r3 == c >= 3 /\ m = 2
        r4 == c >= 2 /\ m = 1
    IN /\ r1 => McScored(mc.allCorrect, "allCorrect") /\ TheScore.isCorrect
       /\ (~r1 /\ r2) =>
            McScored(mc.partialCorrect.allCorrectOptionsThreeMarked, "allCorrectOptionsThreeMarked")
       /\ (~r1 /\ ~r2 /\ r3) =>
            McScored(mc.partialCorrect.twoCorrectOptionsMarked, "twoCorrectOptionsMarked")
       /\ (~r1 /\ ~r2 /\ ~r3 /\ r4) =>
            McScored(mc.partialCorrect.oneCorrectOptionMarked, "oneCorrectOptionMarked")
       /\ (DefaultMarks /\ TheKey.correctAnswer = Arr(<<"A", "C", "D">>)) =>
            /\ question.userAnswer = Arr(<<"A", "C", "D">>) => TheScore.score = 4
            /\ question.userAnswer = Arr(<<"A", "C">>) => TheScore.score = 2
            /\ question.userAnswer = Arr(<<"A">>) => TheScore.score = 1

\* Two of the three correct options A, C, D marked under the default marks:
\* the twoCorrectOptionsMarked tier, 2 marks.
C1_Witness ==
  /\ MarkedList
  /\ AllMarkedCorrect
  /\ DefaultMarks
  /\ TheKey.correctAnswer = Arr(<<"A", "C", "D">>)
  /\ question.userAnswer = Arr(<<"A", "C">>)
  /\ TheScore.score = 2
  /\ McAfter.partialCorrect.twoCorrectOptionsMarked = McBefore.partialCorrect.twoCorrectOptionsMarked + 1

\* Some marked option is not in the key's correct list.
SomeMarkedIncorrect ==
  \E i \in 1..MarkedCount :
    \A j \in 1..CorrectCount : question.userAnswer.arr[i] # TheKey.correctAnswer.arr[j]

\* C2: a multipleCorrect question answered with a non-empty list of which some
\* option is not in the key's correct list scores anyIncorrect and counts as
\* anyIncorrect, however many options are marked and however many are correct:
\* no partial tier and no allCorrect.
C2_AnyIncorrectFirst ==
  (MarkedList /\ SomeMarkedIncorrect) =>
    /\ McScored(markingScheme.multipleCorrect.anyIncorrect, "anyIncorrect")
    /\ ~TheScore.isCorrect

\* A, B marked against the correct list A, C: as many marked as correct, yet
\* B is wrong and the question scores anyIncorrect.
C2_Witness ==
  /\ MarkedList
  /\ SomeMarkedIncorrect
  /\ MarkedCount = CorrectCount
  /\ question.userAnswer = Arr(<<"A", "B">>)
  /\ TheScore.score = markingScheme.multipleCorrect.anyIncorrect
  /\ McAfter.anyIncorrect = McBefore.anyIncorrect + 1

\* C3: a multipleCorrect question whose marked options are all correct but
\* which none of the rules (1)-(4) matches (5 correct with 3 or 4 marked)
\* scores anyIncorrect and counts as anyIncorrect.
C3_CatchAll ==
  (/\ MarkedList
   /\ AllMarkedCorrect
   /\ MarkedCount # CorrectCount
   /\ ~(CorrectCount = 4 /\ MarkedCount = 3)
   /\ ~(CorrectCount >= 3 /\ MarkedCount = 2)
   /\ ~(CorrectCount >= 2 /\ MarkedCount = 1)) =>
    /\ McScored(markingScheme.multipleCorrect.anyIncorrect, "anyIncorrect")
    /\ ~TheScore.isCorrect

\* Three of five correct options marked, none wrong: anyIncorrect.
C3_Witness ==
  /\ MarkedList
  /\ AllMarkedCorrect
  /\ CorrectCount = 5
  /\ MarkedCount = 3
  /\ TheScore.score = markingScheme.multipleCorrect.anyIncorrect
  /\ McAfter.anyIncorrect = McBefore.anyIncorrect + 1

\* C4: a question whose id has no entry in the answer key is skipped: the
\* callback leaves the whole result as it was (totalScore, totalMaxScore,
\* every section's score, maxScore and counters, questionScores), and its id
\* is not in questionScores.
C4_UnkeyedSkipped ==
  /\ DOMAIN result.questionScores \subseteq DOMAIN answerKey
  /\ (taken > 0 /\ ~HasKey(answerKey, question)) =>
       /\ result = before
       /\ question.id \notin DOMAIN result.questionScores

\* An answered question without a key entry, taken after a question that was
\* scored: the result is still that of the first question.
C4_Witness ==
  /\ taken = 2
  /\ ~HasKey(answerKey, question)
  /\ question.userAnswer # Null
  /\ before # EmptyResult
  /\ result = before
  /\ question.id \notin DOMAIN result.questionScores

\* C5: totalScore is the sum of the three sections' score and totalMaxScore
\* the sum of their maxScore, at every point of the loop and in the result
\* returned, whatever the questions' types and the key entries' types.
C5_TotalsAreSectionSums ==
  LET sec == result.sectionScores
  IN /\ result.totalScore =
          sec.singleCorrect.score + sec.multipleCorrect.score + sec.numerical.score
     /\ result.totalMaxScore =
          sec.singleCorrect.maxScore + sec.multipleCorrect.maxScore + sec.numerical.maxScore

\* A returned result of two questions with non-zero scores in two sections,
\* the last question being of a type other than its key entry's.
C5_Witness ==
  /\ pc = "done"
  /\ taken = 2
  /\ Keyed
  /\ question.type \in {"singleCorrect", "multipleCorrect", "numerical"}
  /\ question.type # TheKey.type
  /\ result.sectionScores.singleCorrect.score # 0
  /\ result.sectionScores.multipleCorrect.score # 0
  /\ result.totalScore =
       result.sectionScores.singleCorrect.score + result.sectionScores.multipleCorrect.score

\* The bucket of the section `question` is scored in, for singleCorrect and
\* numerical questions, and its three outcome counters.
TripleBucket(res) ==
  IF question.type = "singleCorrect"
    THEN res.sectionScores.singleCorrect
    ELSE res.sectionScores.numerical

TripleCounters(sec) ==
  [correct |-> sec.correct, incorrect |-> sec.incorrect, unanswered |-> sec.unanswered]

\* The step scored `s` in that section and incremented the counter `c` by one
\* and no other counter of the section.
TripleScored(s, c) ==
  /\ TheScore.score = s
  /\ TripleBucket(result).score = TripleBucket(before).score + s
  /\ TripleCounters(TripleBucket(result)) =
       [TripleCounters(TripleBucket(before)) EXCEPT ![c] = @ + 1]

\* The marks triple of a singleCorrect or numerical question, as the spec
\* gives it.
TripleInForce ==
  IF question.type = "numerical" THEN markingScheme.numerical
  ELSE IF ~markingScheme.singleCorrect.global /\ TheKey.hasMarks THEN TheKey.marks
  ELSE markingScheme.singleCorrect.default

\* userAnswer and the key's correctAnswer are the same string.
SameString ==
  /\ question.userAnswer.kind = "string"
  /\ TheKey.correctAnswer.kind = "string"
  /\ question.userAnswer.str = TheKey.correctAnswer.str

\* C6: a singleCorrect or numerical question with a key entry has exactly one
\* of three outcomes: userAnswer null: the unanswered mark and counter;
\* userAnswer the same string as the key's correctAnswer: the correct mark,
\* isCorrect and the correct counter; any other userAnswer: the incorrect mark
\* and counter.  "9.80" against the key "9.8" is incorrect.
C6_ThreeOutcomes ==
  (Keyed /\ question.type \in {"singleCorrect", "numerical"}) =>
    LET marks == TripleInForce
    IN /\ question.userAnswer = Null =>
            TripleScored(marks.unanswered, "unanswered") /\ ~TheScore.isCorrect
       /\ SameString =>
            TripleScored(marks.correct, "correct") /\ TheScore.isCorrect
       /\ (question.userAnswer # Null /\ ~SameString) =>
            TripleScored(marks.incorrect, "incorrect") /\ ~TheScore.isCorrect
       /\ (question.userAnswer = Str("9.80") /\ TheKey.correctAnswer = Str("9.8")) =>
            TheScore.score = marks.incorrect /\ ~TheScore.isCorrect

\* A numerical question answered "9.80" against the key "9.8": incorrect.
C6_Witness ==
  /\ Keyed
  /\ question.type = "numerical"
  /\ question.userAnswer = Str("9.80")
  /\ TheKey.correctAnswer = Str("9.8")
  /\ TheScore.score = markingScheme.numerical.incorrect
  /\ ~TheScore.isCorrect
  /\ result.sectionScores.numerical.incorrect = before.sectionScores.numerical.incorrect + 1

\* The score a triple gives the question's answer.
ScoreUnder(marks) ==
  IF question.userAnswer = Null THEN marks.unanswered
  ELSE IF SameString THEN marks.correct
  ELSE marks.incorrect

\* C7: a singleCorrect question is marked with the key entry's marks when
\* singleCorrect.global is false and the entry has marks, and with
\* singleCorrect.default in every other case; its maxScore is the correct
\* value of that triple.
C7_SingleCorrectMarks ==
  (Keyed /\ question.type = "singleCorrect") =>
    LET sc == markingScheme.singleCorrect
        own == ~sc.global /\ TheKey.hasMarks
        sec == result.sectionScores.singleCorrect
        was == before.sectionScores.singleCorrect
    IN /\ own =>
            /\ TheScore.score = ScoreUnder(TheKey.marks)
            /\ TheScore.maxScore = TheKey.marks.correct
            /\ sec.maxScore = was.maxScore + TheKey.marks.correct
       /\ ~own =>
            /\ TheScore.score = ScoreUnder(sc.default)
            /\ TheScore.maxScore = sc.default.correct
            /\ sec.maxScore = was.maxScore + sc.default.correct

\* A correct singleCorrect answer under global = true, on an entry whose own
\* marks differ from the default: the default correct mark is awarded.
C7_Witness ==
  /\ Keyed
  /\ question.type = "singleCorrect"
  /\ markingScheme.singleCorrect.global
  /\ TheKey.hasMarks
  /\ TheKey.marks.correct # markingScheme.singleCorrect.default.correct
  /\ TheScore.isCorrect
  /\ TheScore.score = markingScheme.singleCorrect.default.correct
  /\ TheScore.maxScore = markingScheme.singleCorrect.default.correct

\* C8: a numerical question's score and maxScore come from
\* markingScheme.numerical, whether or not the key entry has marks and
\* whatever singleCorrect.global is.
C8_NumericalMarks ==
  (Keyed /\ question.type = "numerical") =>
    /\ TheScore.score = ScoreUnder(markingScheme.numerical)
    /\ TheScore.maxScore = markingScheme.numerical.correct
    /\ result.sectionScores.numerical.maxScore =
         before.sectionScores.numerical.maxScore + markingScheme.numerical.correct
    /\ result.sectionScores.numerical.score =
         before.sectionScores.numerical.score + ScoreUnder(markingScheme.numerical)

\* A correct numerical answer on an entry with marks of its own, with
\* global = false: the numerical correct mark, not the entry's.
C8_Witness ==
  /\ Keyed
  /\ question.type = "numerical"
  /\ ~markingScheme.singleCorrect.global
  /\ TheKey.hasMarks
  /\ TheKey.marks.correct # markingScheme.numerical.correct
  /\ TheScore.isCorrect
  /\ TheScore.score = markingScheme.numerical.correct

\* C9: a multipleCorrect question with a key entry whose userAnswer is null
\* or an empty list scores multipleCorrect.unanswered and increments the
\* multipleCorrect unanswered counter and no other counter of any section;
\* isCorrect stays false.
C9_UnansweredMultiple ==
  (/\ Keyed
   /\ question.type = "multipleCorrect"
   /\ question.userAnswer \in {Null, Arr(<< >>)}) =>
    /\ McScored(markingScheme.multipleCorrect.unanswered, "unanswered")
    /\ ~TheScore.isCorrect
    /\ result.sectionScores.singleCorrect = before.sectionScores.singleCorrect
    /\ result.sectionScores.numerical = before.sectionScores.numerical

\* An empty list under a scheme whose unanswered mark is not 0.
C9_Witness ==
  /\ Keyed
  /\ question.type = "multipleCorrect"
  /\ question.userAnswer = Arr(<< >>)
  /\ markingScheme.multipleCorrect.unanswered # 0
  /\ TheScore.score = markingScheme.multipleCorrect.unanswered
  /\ McAfter.unanswered = McBefore.unanswered + 1

\* C10: every multipleCorrect question with a key entry adds exactly
\* multipleCorrect.allCorrect to the section's maxScore and to totalMaxScore,
\* whatever its answer and however many options the key marks correct; the
\* section's maxScore is allCorrect times the number of such questions.
C10_MultipleMaxScore ==
  LET allCorrect == markingScheme.multipleCorrect.allCorrect
  IN /\ McAfter.maxScore = allCorrect * tally["multipleCorrect"]
     /\ (Keyed /\ question.type = "multipleCorrect") =>
          /\ TheScore.maxScore = allCorrect
          /\ McAfter.maxScore = McBefore.maxScore + allCorrect
          /\ result.totalMaxScore = before.totalMaxScore + allCorrect

\* Two multipleCorrect questions, the last one unanswered on a key of three
\* correct options: the section's maxScore is twice allCorrect.
C10_Witness ==
  /\ taken = 2
  /\ tally["multipleCorrect"] = 2
  /\ Keyed
  /\ question.type = "multipleCorrect"
  /\ question.userAnswer = Null
  /\ TheKey.correctAnswer = Arr(<<"A", "C", "D">>)
  /\ McAfter.maxScore = 2 * markingScheme.multipleCorrect.allCorrect

\* C11: a question with a key entry whose type is none of singleCorrect,
\* multipleCorrect and numerical leaves every field of the three section
\* buckets, totalScore and totalMaxScore as they were, as if it were not in
\* the list; the callback completes and records it with score 0.
C11_UnknownTypeIgnored ==
  (Keyed /\ question.type \notin {"singleCorrect", "multipleCorrect", "numerical"}) =>
    /\ result.sectionScores = before.sectionScores
    /\ result.totalScore = before.totalScore
    /\ result.totalMaxScore = before.totalMaxScore
    /\ TheScore.score = 0
    /\ TheScore.maxScore = 0

\* An answered matrixMatch question with a key entry, taken after a question
\* that scored: sections and totals are those of the first question.
C11_Witness ==
  /\ taken = 2
  /\ Keyed
  /\ question.type = "matrixMatch"
  /\ question.userAnswer = Str("A")
  /\ before.totalScore # 0
  /\ before.totalMaxScore # 0
  /\ result.sectionScores = before.sectionScores
  /\ result.totalScore = before.totalScore

\* The questions taken so far have pairwise distinct ids.
DistinctIds == Cardinality(seen) = taken

\* C12: for a question list with pairwise distinct ids, questionScores has an
\* entry for an id exactly when a question of the list has that id and the
\* answer key has an entry for it; the entry holds the score and maxScore the
\* question added to the totals, the key's correctAnswer and the question's
\* userAnswer, and later questions leave it as it is.
C12_QuestionScores ==
  DistinctIds =>
    /\ DOMAIN result.questionScores = seen \cap DOMAIN answerKey
    /\ Keyed =>
         /\ TheScore.score = result.totalScore - before.totalScore
         /\ TheScore.maxScore = result.totalMaxScore - before.totalMaxScore
         /\ TheScore.correctAnswer = TheKey.correctAnswer
         /\ TheScore.userAnswer = question.userAnswer
    /\ \A i \in DOMAIN before.questionScores :
         /\ i \in DOMAIN result.questionScores
         /\ result.questionScores[i] = before.questionScores[i]

\* Two questions with different ids, both with a key entry, the second with a
\* non-zero score: questionScores holds both.
C12_Witness ==
  /\ taken = 2
  /\ DistinctIds
  /\ Keyed
  /\ DOMAIN result.questionScores = seen
  /\ Cardinality(DOMAIN result.questionScores) = 2
  /\ TheScore.score # 0
  /\ TheScore.score = result.totalScore - before.totalScore

(***************************************************************************)
(* Properties of validateAnswerKey, and of calculateScore on what it       *)
(* accepts.                                                                *)
(***************************************************************************)
Validated == verdict # "pending"

\* Some entry of the candidate document satisfies P.
SomeEntry(P(_, _)) ==
  \E i \in 1..Len(candidate.entries) : P(candidate.entries[i].id, candidate.entries[i].entry)

\* The entry that the question scored was looked up to.
ScoredEntry == Lookup(candidate, question)

\* C13: calculateScore on a document validateAnswerKey accepted, with any
\* question (any type; userAnswer null, a string or a list) and any fully
\* populated marking scheme, raises no error, and every score and maxScore of
\* the result is a defined number.
C13_ScoreDefined ==
  (pc = "done" /\ verdict = "accepted" /\ taken = 1) =>
    /\ ~threw
    /\ defined
    /\ result.totalScore \in Int
    /\ result.totalMaxScore \in Int
    /\ \A sec \in {"singleCorrect", "multipleCorrect", "numerical"} :
         /\ result.sectionScores[sec].score \in Int
         /\ result.sectionScores[sec].maxScore \in Int
    /\ \A i \in DOMAIN result.questionScores :
         /\ result.questionScores[i].score \in Int
         /\ result.questionScores[i].maxScore \in Int

\* A correct singleCorrect answer scored, with global = false, on an accepted
\* document whose entry has marks of its own: the entry's correct mark.
C13_Witness ==
  /\ pc = "done"
  /\ verdict = "accepted"
  /\ taken = 1
  /\ question.type = "singleCorrect"
  /\ ~markingScheme.singleCorrect.global
  /\ EntryTruthy(ScoredEntry)
  /\ ScoredEntry.marks.k = "object"
  /\ ~threw
  /\ defined
  /\ result.totalScore = ScoredEntry.marks.correct.n
  /\ result.totalScore # markingScheme.singleCorrect.default.correct

\* correctAnswer is a non-empty list of strings.
ListOfStrings(v) ==
  /\ v.k = "array"
  /\ Len(v.a) > 0
  /\ \A i \in 1..Len(v.a) : v.a[i].k = "string"

\* A multipleCorrect entry whose correctAnswer is not a non-empty list of
\* strings, or a singleCorrect or numerical entry whose correctAnswer is not
\* a string.
BadCorrectAnswer(id, e) ==
  /\ e.k = "object"
  /\ \/ e.type = JStr("multipleCorrect") /\ ~ListOfStrings(e.correctAnswer)
     \/ e.type \in {JStr("singleCorrect"), JStr("numerical")} /\ e.correctAnswer.k # "string"

\* C14: validateAnswerKey returns false for every document with a
\* multipleCorrect entry whose correctAnswer is not a non-empty list of
\* strings, or a singleCorrect or numerical entry whose correctAnswer is not a
\* string.
C14_BadCorrectAnswerRejected ==
  (Validated /\ SomeEntry(BadCorrectAnswer)) => verdict = "rejected"

\* marks is there and is not a mapping with numbers for correct, incorrect
\* and unanswered.
BadMarks(id, e) ==
  /\ e.k = "object"
  /\ e.marks.k # "absent"
  /\ ~(/\ e.marks.k = "object"
       /\ e.marks.correct.k = "number"
       /\ e.marks.incorrect.k = "number"
       /\ e.marks.unanswered.k = "number")

\* C15: validateAnswerKey returns false for every document with an entry
\* whose marks is present and is not a mapping with the three numbers
\* correct, incorrect and unanswered (null, 0, false and "" included).
C15_BadMarksRejected ==
  (Validated /\ SomeEntry(BadMarks)) => verdict = "rejected"

\* The id does not spell a number.
NotANumber(id, e) == id \notin {"0", "1", "2", "3"}

\* C16: validateAnswerKey returns false for every document with an entry
\* whose id does not parse as a number (an empty key, a word), whatever the
\* entry holds.
C16_BadIdRejected ==
  (Validated /\ SomeEntry(NotANumber)) => verdict = "rejected"

\* The entry passes every rule: a mapping with type and correctAnswer, type
\* one of the three, correctAnswer of the shape of the type, marks valid if
\* present.
IllFormed(id, e) ==
  \/ e.k # "object"
  \/ e.type.k = "absent"
  \/ e.correctAnswer.k = "absent"
  \/ e.type \notin {JStr("singleCorrect"), JStr("multipleCorrect"), JStr("numerical")}
  \/ BadCorrectAnswer(id, e)
  \/ BadMarks(id, e)

\* C17: for a non-empty mapping whose ids are numbers, validateAnswerKey
\* returns true exactly when every entry passes every rule; one entry that
\* does not, at whatever position, has the whole document rejected.
C17_AcceptedIffWellFormed ==
  (/\ Validated
   /\ candidate.k = "object"
   /\ Len(candidate.entries) > 0
   /\ ~SomeEntry(NotANumber)) =>
    (verdict = "accepted" <=> ~SomeEntry(IllFormed))

\* C18: validateAnswerKey returns false for every candidate that is not a
\* non-null mapping (null, undefined, a number, a string, a boolean, a list)
\* and for a mapping with no entries.
C18_NotAMappingRejected ==
  (Validated /\ (candidate.k # "object" \/ Len(candidate.entries) = 0)) =>
    verdict = "rejected"

(***************************************************************************)
(* Properties of successive calls.                                         *)
(***************************************************************************)
\* C19: calculateScore is idempotent and stateless: two calls given the same
\* questions, answer key and marking scheme, with any calls in between,
\* return the same result, and no call changes its arguments.
C19_Idempotent ==
  /\ \A i, j \in 1..Len(returned) :
       returned[i].given = returned[j].given => returned[i].result = returned[j].result
  /\ \A i \in 1..Len(returned) : returned[i].arguments = returned[i].given
  /\ pc = "loop" => Arguments(questions, answerKey, markingScheme) = given

\* The third call was given what the first was, the second something else,
\* and the first scored something.
C19_Witness ==
  /\ Len(returned) = 3
  /\ returned[3].given = returned[1].given
  /\ returned[2].given # returned[1].given
  /\ returned[2].result # returned[1].result
  /\ returned[1].result.totalMaxScore > 0
  /\ returned[1].result.totalScore # 0
  /\ returned[3].result = returned[1].result

C22_DefaultsKept ==
  /\ moduleDefaultMarkingScheme = defaultMarkingScheme
  /\ (verdict = "pending" /\ pageAnswerKey = NoAnswerKey) => markingScheme = defaultMarkingScheme

\* The marks of an entry, absent when it has none.
MarksOf(c, j) == c.entries[j].entry.marks

\* C27: handleQuestionMarkingSchemeChange(questionId, field, value) changes
\* the marks of the answer-key entry questionId only: every other entry of
\* the key keeps the marks, or the absence of marks, it had.
C27_OtherEntriesKept ==
  edited # 0 =>
    /\ Len(pageAnswerKey.entries) = Len(keyBefore.entries)
    /\ \A j \in 1..Len(pageAnswerKey.entries) :
         pageAnswerKey.entries[j].id # IdName(edited) =>
           MarksOf(pageAnswerKey, j) = MarksOf(keyBefore, j)

(***************************************************************************)
(* Further properties of calculateScore.                                   *)
(***************************************************************************)
\* The sum of the outcome counters of a section.
TripleCount(sec) == sec.correct + sec.incorrect + sec.unanswered

MultipleCount(sec) ==
  sec.unanswered + sec.anyIncorrect + sec.allCorrect
    + sec.partialCorrect.allCorrectOptionsThreeMarked
    + sec.partialCorrect.twoCorrectOptionsMarked
    + sec.partialCorrect.oneCorrectOptionMarked

\* C28: for an answer key validateAnswerKey accepted, the outcome counters of
\* each section of the result add up to the number of questions of that type
\* that have a key entry, also when the entry's type is not the question's.
C28_CountersPartition ==
  (verdict = "accepted" /\ pc = "done" /\ ~threw /\ defined) =>
    /\ MultipleCount(result.sectionScores.multipleCorrect) = tally["multipleCorrect"]
    /\ TripleCount(result.sectionScores.singleCorrect) = tally["singleCorrect"]
    /\ TripleCount(result.sectionScores.numerical) = tally["numerical"]

\* The options marked and the correct options, as sets.
MarkedSet == {question.userAnswer.arr[i] : i \in 1..MarkedCount}

CorrectSet == {TheKey.correctAnswer.arr[j] : j \in 1..CorrectCount}

\* C29: a multipleCorrect question answered with a list is scored in the
\* allCorrect tier, with isCorrect = true, if and only if the set of the
\* options marked is the set of the correct options, also when the marked
\* list repeats an option.
C29_AllCorrectIffSameSet ==
  MarkedList =>
    ((McAfter.allCorrect = McBefore.allCorrect + 1 /\ TheScore.isCorrect) <=> MarkedSet = CorrectSet)

(***************************************************************************)
(* Properties of StorageService.                                           *)
(***************************************************************************)
\* The same data: the same properties with the same values, an undefined
\* property counting as one that is not there.
DataEqual(a, b) ==
  /\ a.kind = b.kind
  /\ \A name \in DOMAIN a.props \cup DOMAIN b.props : ReadProperty(a, name) = ReadProperty(b, name)

\* C30: from any storage state, saveData(d, o1) followed directly by
\* loadData(o2) returns data equal to d, whatever useServerStorage is in o1
\* and in o2; and clearData(o) followed directly by loadData(o) returns null.
C30_RoundTrip ==
  \A i \in 1..(Len(storageLog) - 1) :
    LET first == storageLog[i]
        second == storageLog[i + 1]
    IN /\ (first.name = "saveData" /\ second.name = "loadData") =>
            DataEqual(second.data, first.data)
       /\ (/\ first.name = "clearData"
           /\ second.name = "loadData"
           /\ first.useServerStorage = second.useServerStorage) =>
            second.data = NullData

(***************************************************************************)
(* Properties of the test runner.                                          *)
(***************************************************************************)
\* C21: in the test runner, once the question list is initialised, the
\* userAnswer of every multipleCorrect question is a list, never null or a
\* string, whatever answer changes, clear-responses, marks for review,
\* navigation, questionOneVisited events and saves have happened.
C21_MultipleCorrectIsList ==
  \A i \in 1..Len(testState.questions) :
    testState.questions[i].type = "multipleCorrect" => IsArray(testState.questions[i].userAnswer)

\* C23: an answer written by an answer handler is not lost: once the save
\* the handler deferred with setTimeout has run, the question still has the
\* new answer in testState and the progress that save stored had it.
C23_AnswerKept ==
  (lastWritten.set /\ lastWritten.ticket = 0) =>
    /\ lastWritten.saved
    /\ testState.questions[lastWritten.at + 1].userAnswer = lastWritten.userAnswer

\* C24: once handleSubmitTest has started no saveProgress call writes test
\* progress any more, and when the submission is complete
\* StorageService.loadData gives null.
C24_NoSaveAfterSubmit ==
  /\ ~lateWrite
  /\ submitStage = "done" => LoadData(localStorage, testState.useServerStorage) = NullData

\* A new attempt under config: config.numQuestions questions, none
\* answered, and the full time.
Fresh(ts, config) ==
  /\ Len(ts.questions) = config.props.numQuestions.n
  /\ \A i \in 1..Len(ts.questions) : ~HasAnswer(ts.questions[i])
  /\ ts.timeRemaining = FullTime(config)

\* C25: after handleStartTest has stored a new testConfig and cleared the
\* saved progress, the test page starts a new attempt under that config; it
\* restores no progress of an earlier attempt, signed in or not.
C25_FreshAttempt ==
  [][(started # NullData /\ testState.isLoading /\ ~testState'.isLoading) => Fresh(testState', started)]_vars

\* The test is loaded with a testConfig, its last MaxTimed seconds running.
Loaded ==
  /\ route = "test"
  /\ ~testState.isLoading
  /\ testState.testConfig # NullData
  /\ testState.timeRemaining <= MaxTimed

ResultsStored == testState.testSubmitted /\ localStorage["testResults"].present

\* C26: with a timer that keeps ticking, timeRemaining of a loaded test goes
\* down by one per tick and, at 0 with the test not submitted,
\* handleSubmitTest is called: testSubmitted becomes true and the results
\* are stored under testResults.
C26_TimerSubmits ==
  /\ [][(~testState.isLoading /\ testState'.timeRemaining # testState.timeRemaining)
          => testState'.timeRemaining = testState.timeRemaining - 1]_vars
  /\ Loaded ~> ResultsStored

\* The timer alone has submitted the test: no user event, the time is up.
C26_Witness ==
  /\ ResultsStored
  /\ testEvents = 0
  /\ testState.timeRemaining = 0
  /\ submitStage # "idle"

====
